---------------------------- MODULE Spec2Model ----------------------------
(***************************************************************************)
(* A model of asciiquarium.py: the Entity class, the Animation scene and   *)
(* its main loop (run / animate / check_collisions / draw_screen) and the  *)
(* spawn functions and callbacks the loop dispatches to.                   *)
(*                                                                         *)
(* Representation.                                                         *)
(*  - A Python string is a sequence of one-character strings; NL is the    *)
(*    newline character.  None and the empty string are both <<>> where    *)
(*    the code only tests truthiness (shape and colour-map strings).       *)
(*  - Positions and velocities are floats in the code.  They are held here *)
(*    in units of 1/Scale cell, so a velocity of 0.5 is 1.  PyInt is Python's*)
(*    int(): truncation toward zero.                                       *)
(*  - time.time() is the variable now, in units of one frame delay.        *)
(*  - An object reference is the id the object got at construction.        *)
(*  - Callbacks are named by the name of the function they are bound to.   *)
(***************************************************************************)
EXTENDS Integers, Sequences, FiniteSets, TLC

VARIABLES
    entities,       \* Animation.entities: the live collection, in list order
    width,          \* Animation.width
    height,         \* Animation.height
    paused,         \* Animation.paused
    needs_redraw,   \* Animation.needs_redraw
    now,            \* the value time.time() returns
    pc,             \* position of the main loop
    idx,            \* index of the for loop that is executing (1-based)
    dead_entities,  \* animate()'s local list dead_entities
    next_id,        \* number of Entity objects constructed so far
    log,            \* history: the calls made in the current loop iteration
    death_calls,    \* history: id -> number of times its death_cb was invoked
    screen          \* stdscr: the addch calls made since the last erase()

vars == <<entities, width, height, paused, needs_redraw, now, pc, idx,
          dead_entities, next_id, log, death_calls,
          screen>>

---------------------------------------------------------------------------
(* Bounds of the model *)

MaxTime == 5        \* the loop stops sleeping once now reaches MaxTime
MaxIds == 6         \* at most MaxIds Entity objects are ever constructed
MaxDt == 2          \* one loop iteration takes 1..MaxDt frame delays

(* Fixed-point scale of positions: the smallest velocity step of the code   *)
(* is 0.5 (bubble_vel_y), so positions are held in half cells.              *)
Scale == 2

None == -1
NL == "\n"

Truthy(v) == v /= None /\ v /= 0

PyInt(v) == IF v >= 0 THEN v \div Scale ELSE -((-v) \div Scale)

Max2(a, b) == IF a >= b THEN a ELSE b

---------------------------------------------------------------------------
(* str.strip('\n'), str.split('\n'), max(len(line) ...) *)

RECURSIVE LStripNL(_)
LStripNL(s) == IF s /= <<>> /\ Head(s) = NL THEN LStripNL(Tail(s)) ELSE s

RECURSIVE RStripNL(_)
RStripNL(s) ==
    IF s /= <<>> /\ s[Len(s)] = NL THEN RStripNL(SubSeq(s, 1, Len(s) - 1)) ELSE s

StripNL(s) == RStripNL(LStripNL(s))

RECURSIVE SplitNLFrom(_, _)
SplitNLFrom(s, cur) ==
    IF s = <<>> THEN <<cur>>
    ELSE IF Head(s) = NL THEN <<cur>> \o SplitNLFrom(Tail(s), <<>>)
    ELSE SplitNLFrom(Tail(s), Append(cur, Head(s)))

SplitNL(s) == SplitNLFrom(s, <<>>)

RECURSIVE MaxLen(_)
MaxLen(ls) == IF ls = <<>> THEN 0 ELSE Max2(Len(Head(ls)), MaxLen(Tail(ls)))

---------------------------------------------------------------------------
(* class Entity *)

(* The keyword defaults of Entity.__init__. *)
EntityDefaults ==
    [type |-> "", shape |-> <<>>, color_map |-> <<>>, pos |-> <<0, 0, 0>>,
     velocity |-> <<0, 0, 0>>, anim_speed |-> 0, default_color_char |-> "c",
     die_offscreen |-> FALSE, die_time |-> None, die_frame |-> None,
     death_cb |-> "None", death_cb_args |-> <<>>, update_cb |-> "None",
     coll_handler |-> "None", physical |-> FALSE, transparent_char |-> " ",
     auto_trans |-> FALSE, shape_is_list |-> FALSE, color_map_is_list |-> FALSE]

(* Entity._update_dimensions: the cached lines and size of current_frame. *)
FrameLines(shape_str) == IF shape_str = <<>> THEN <<>> ELSE SplitNL(StripNL(shape_str))

FrameColorLines(shape_str, color_map_str) ==
    IF shape_str = <<>> \/ color_map_str = <<>> THEN <<>>
    ELSE SplitNL(StripNL(color_map_str))

UpdateDimensions(e) ==
    LET shape_str == e.shapes[e.current_frame + 1]
        lines == FrameLines(shape_str)
    IN  [e EXCEPT !._lines = lines,
                  !._height = Len(lines),
                  !._width = MaxLen(lines),
                  !._color_lines =
                      FrameColorLines(shape_str, e.color_maps[e.current_frame + 1])]

(* Entity.__init__.  cfg.shape is a list of frame strings when               *)
(* cfg.shape_is_list, else one frame string; likewise cfg.color_map and       *)
(* cfg.color_map_is_list.  The animation-speed                               *)
(* modifier velocity[3] is a rational <<numerator, denominator>>.            *)
Entity(id, cfg, t) ==
    LET shapes == IF cfg.shape_is_list THEN cfg.shape ELSE <<cfg.shape>>
        given == IF cfg.color_map_is_list THEN cfg.color_map
                 ELSE [i \in 1..Len(shapes) |-> cfg.color_map]
        color_maps == IF Len(given) < Len(shapes)
                      THEN given \o [i \in 1..(Len(shapes) - Len(given)) |-> given[Len(given)]]
                      ELSE given
    IN  UpdateDimensions(
          [id |-> id, type |-> cfg.type,
           x |-> cfg.pos[1], y |-> cfg.pos[2], z |-> cfg.pos[3],
           vx |-> cfg.velocity[1], vy |-> cfg.velocity[2], vz |-> cfg.velocity[3],
           anim_speed_modifier |->
               IF Len(cfg.velocity) > 3 THEN cfg.velocity[4] ELSE <<1, 1>>,
           shapes |-> shapes, color_maps |-> color_maps,
           current_frame |-> 0, anim_speed |-> cfg.anim_speed,
           last_anim_time |-> t,
           default_color_char |-> cfg.default_color_char,
           die_offscreen |-> cfg.die_offscreen, die_time |-> cfg.die_time,
           die_frame |-> cfg.die_frame, _frames_shown |-> 0,
           death_cb |-> cfg.death_cb, death_cb_args |-> cfg.death_cb_args,
           update_cb |-> cfg.update_cb, coll_handler |-> cfg.coll_handler,
           physical |-> cfg.physical, transparent_char |-> cfg.transparent_char,
           auto_trans |-> cfg.auto_trans,
           is_alive |-> TRUE, _width |-> 0, _height |-> 0,
           _lines |-> <<>>, _color_lines |-> <<>>, collisions |-> <<>>])

(* Entity.kill *)
Kill(e) == [e EXCEPT !.is_alive = FALSE]

(* Entity.is_offscreen *)
IsOffscreenStrict(e, screen_width, screen_height) ==
    \/ e.x + Scale * e._width < 0
    \/ e.x > Scale * screen_width
    \/ e.y + Scale * e._height < 0
    \/ e.y > Scale * screen_height

IsOffscreenSideways(e, screen_width, screen_height) ==
    \/ e.x + Scale * e._width <= 0
    \/ e.x >= Scale * screen_width

IsOffscreen(e, screen_width, screen_height) ==
    \/ e.x + Scale * e._width <= 0
    \/ e.x >= Scale * screen_width
    \/ e.y + Scale * e._height <= 0
    \/ e.y >= Scale * screen_height

(* Entity.update, lines 209-214: the two life checks. *)
TimeExpired(e, t) == Truthy(e.die_time) /\ t >= e.die_time

FrameExpiredEarly(e) == Truthy(e.die_frame) /\ e._frames_shown + 1 >= e.die_frame

FrameExpired(e) == Truthy(e.die_frame) /\ e._frames_shown >= e.die_frame

(* Entity.update, lines 217-218: the animation is due.  The code compares   *)
(* now - last_anim_time with anim_speed / anim_speed_modifier; the modifier  *)
(* is the positive rational m[1] / m[2].                                     *)
AnimDue(e, t) ==
    /\ Len(e.shapes) > 1
    /\ e.anim_speed > 0
    /\ (t - e.last_anim_time) * e.anim_speed_modifier[1]
           >= e.anim_speed * e.anim_speed_modifier[2]

(* Entity.update, lines 219-222. *)
AdvanceFrameSkip(e, t) ==
    LET f == [e EXCEPT !.current_frame = (e.current_frame + 2) % Len(e.shapes)]
    IN  [UpdateDimensions(f) EXCEPT !.last_anim_time = t,
                                    !._frames_shown = e._frames_shown + 1]

AdvanceFrameStale(e, t) ==
    [e EXCEPT !.current_frame = (e.current_frame + 1) % Len(e.shapes),
              !.last_anim_time = t,
              !._frames_shown = e._frames_shown + 1]

AdvanceFrame(e, t) ==
    LET f == [e EXCEPT !.current_frame = (e.current_frame + 1) % Len(e.shapes)]
    IN  [UpdateDimensions(f) EXCEPT !.last_anim_time = t,
                                    !._frames_shown = e._frames_shown + 1]

(* Entity.update, lines 228-229. *)
MoveZ(e) == [e EXCEPT !.x = e.x + e.vx, !.y = e.y + e.vy, !.z = e.z + e.vz]

Move(e) == [e EXCEPT !.x = e.x + e.vx, !.y = e.y + e.vy]

(* A variant of update that recomputes is_alive from the offscreen test. *)
EntityUpdateRevive(e, t, screen_width, screen_height) ==
    LET m == Move(e)
    IN  [ent |-> [m EXCEPT !.is_alive =
                     ~(m.die_offscreen /\ IsOffscreen(m, screen_width, screen_height))],
         run_cb |-> FALSE]

(* Entity.update, lines 206-240, for an entity that is alive: the entity   *)
(* it leaves, and whether update_cb is then invoked (line 238).            *)
LiveUpdateMoveFirst(e, t, screen_width, screen_height) ==
    LET m == Move(e)
    IN  IF TimeExpired(m, t) \/ FrameExpired(m) THEN [ent |-> Kill(m), run_cb |-> FALSE]
        ELSE IF m.die_offscreen /\ IsOffscreen(m, screen_width, screen_height)
        THEN [ent |-> Kill(m), run_cb |-> FALSE]
        ELSE [ent |-> m, run_cb |-> m.update_cb /= "None"]

LiveUpdate(e, t, screen_width, screen_height) ==
    IF TimeExpired(e, t) THEN [ent |-> Kill(e), run_cb |-> FALSE]
    ELSE IF FrameExpired(e) THEN [ent |-> Kill(e), run_cb |-> FALSE]
    ELSE LET a == IF AnimDue(e, t) THEN AdvanceFrame(e, t) ELSE e
             m == Move(a)
         IN  IF m.die_offscreen /\ IsOffscreen(m, screen_width, screen_height)
             THEN [ent |-> Kill(m), run_cb |-> FALSE]
             ELSE [ent |-> m, run_cb |-> m.update_cb /= "None"]

(* Entity.update, lines 203-204: nothing happens to a dead entity. *)
EntityUpdateNoGuard(e, t, screen_width, screen_height) ==
    LiveUpdate(e, t, screen_width, screen_height)

EntityUpdate(e, t, screen_width, screen_height) ==
    IF ~e.is_alive THEN [ent |-> e, run_cb |-> FALSE]
    ELSE LiveUpdate(e, t, screen_width, screen_height)

---------------------------------------------------------------------------
(* The content catalogue.  The art of the source is replaced by small      *)
(* shapes of the same structure (raw strings that start and end with a     *)
(* newline, frame lists for the animated ones); intervals and lifetimes    *)
(* are shortened in proportion.  Spawn positions are computed from the     *)
(* shapes as the source computes them.                                     *)

DEPTH == [guiText |-> 0, gui |-> 1, shark |-> 2, fish_start |-> 3,
          fish_end |-> 20, seaweed |-> 21, castle |-> 22,
          water_line3 |-> 2, water_gap3 |-> 3, water_line2 |-> 4,
          water_gap2 |-> 5, water_line1 |-> 6, water_gap1 |-> 7,
          water_line0 |-> 8, water_gap0 |-> 9]

(* str.count('\n') and max(len(line) for line in s.split('\n')), as the     *)
(* spawn functions measure a raw shape string (no strip).                   *)
CountNL(s) == Cardinality({i \in 1..Len(s) : s[i] = NL})

RawWidth(s) == MaxLen(SplitNL(s))

(* Entity(shape=shape).height() / .width(): create_fish_entity, line 1057. *)
TempHeight(shape) == Len(FrameLines(shape))

TempWidth(shape) == MaxLen(FrameLines(shape))

(* get_old_fish_data / get_new_fish_data: (shape_l, mask_l, shape_r, mask_r) *)
OldFishData ==
    << << <<NL, ">", "<", ">", NL>>, <<NL, "1", "1", "4", NL>>,
          <<NL, "<", ">", "<", NL>>, <<NL, "4", "1", "1", NL>> >> >>

NewFishData ==
    << << <<NL, "/", NL, "|", NL, "|", NL, "|", NL, "|", NL, "\\", NL>>,
          <<NL, "1", NL, "1", NL, "4", NL, "1", NL, "1", NL, "1", NL>>,
          <<NL, "\\", NL, "|", NL, "|", NL, "|", NL, "|", NL, "/", NL>>,
          <<NL, "1", NL, "1", NL, "4", NL, "1", NL, "1", NL, "1", NL>> >> >>

(* rand_color_mask: digits 1-9 but 4 become a random colour, 4 becomes W.   *)
(* One random colour is drawn per digit value; the model draws it from      *)
(* MaskColors.                                                             *)
MaskColors == {"c"}

RandColorMask(template, color) ==
    [i \in 1..Len(template) |->
        IF template[i] = "4" THEN "W"
        ELSE IF template[i] \in {"1", "2", "3", "5", "6", "7", "8", "9"} THEN color
        ELSE template[i]]

(* random.uniform(0.25, 1.25), sampled at 0.5 and 1.0 cells per frame. *)
FishSpeeds == {1, 2}

(* random.randint(DEPTH['fish_start'], DEPTH['fish_end']), sampled. *)
FishDepths == {DEPTH.fish_start}

(* create_fish_entity *)
CreateFishEntity(nid, fish_data, W, H, t) ==
    { << Entity(nid + 1,
            [EntityDefaults EXCEPT
                !.type = "fish",
                !.shape = IF moving_right THEN fish_data[n][1] ELSE fish_data[n][3],
                !.auto_trans = TRUE,
                !.color_map = RandColorMask(
                    IF moving_right THEN fish_data[n][2] ELSE fish_data[n][4], color),
                !.pos = << IF moving_right
                           THEN -Scale * TempWidth(IF moving_right THEN fish_data[n][1]
                                                   ELSE fish_data[n][3])
                           ELSE Scale * (W - 1),
                           Scale * y, z >>,
                !.velocity = <<IF moving_right THEN speed ELSE -speed, 0, 0>>,
                !.update_cb = "fish_update",
                !.die_offscreen = TRUE,
                !.death_cb = "create_fish",
                !.physical = TRUE,
                !.coll_handler = "fish_collision",
                !.default_color_char = "y"], t) >> :
        <<n, moving_right, speed, z, color, y>> \in
            { c \in (1..Len(fish_data)) \X BOOLEAN \X FishSpeeds \X FishDepths
                    \X MaskColors \X (0..(H + 9)) :
                LET shape == IF c[2] THEN fish_data[c[1]][1] ELSE fish_data[c[1]][3]
                IN  c[6] \in 9..Max2(9, H - TempHeight(shape) - 1) } }

(* create_fish: NEW_FISH is True unless classic mode; random.randint(0, 11) *)
(* > 8 picks the new style.                                                 *)
CreateFish(nid, NEW_FISH, W, H, t) ==
    IF NEW_FISH
    THEN CreateFishEntity(nid, NewFishData, W, H, t)
         \cup CreateFishEntity(nid, OldFishData, W, H, t)
    ELSE CreateFishEntity(nid, OldFishData, W, H, t)

(* create_bubble *)
CreateBubble(nid, fish, t) ==
    << Entity(nid + 1,
         [EntityDefaults EXCEPT
            !.shape = << <<".">>, <<"o">>, <<"O">> >>,
            !.shape_is_list = TRUE,
            !.type = "bubble",
            !.pos = << IF fish.vx > 0 THEN fish.x + Scale * fish._width
                       ELSE fish.x - Scale,
                       fish.y + Scale * (fish._height \div 2),
                       fish.z - 1 >>,
            !.velocity = <<0, -1, 0, <<1, 2>> >>,
            !.anim_speed = 1,
            !.die_offscreen = TRUE,
            !.physical = TRUE,
            !.coll_handler = "bubble_collision",
            !.default_color_char = "C",
            !.die_frame = 15], t) >>

(* create_splat *)
SplatShapes ==
    << <<NL, " ", "*", NL, "*", "*", "*", NL>>,
       <<NL, "\"", "*", ";", NL, "*", "\"", "'", NL>>,
       <<" ">> >>

CreateSplat(nid, x, y, z, t) ==
    << Entity(nid + 1,
         [EntityDefaults EXCEPT
            !.shape = SplatShapes,
            !.shape_is_list = TRUE,
            !.pos = <<x - Scale * 4, y - Scale * 2, z - 2>>,
            !.default_color_char = "R",
            !.anim_speed = 1,
            !.transparent_char = " ",
            !.die_frame = Len(SplatShapes)], t) >>

(* create_environment: the four rows of the water line, each a 33-column   *)
(* segment tiled width // 33 + 2 times and cut to the width of the window.  *)
WaterLineSegmentShapes ==
    <<
    <<
      "~", "~", "~", "~", "~", "~", "~", "~", "~", "~", "~", "~", "~", "~",
      "~", "~", "~", "~", "~", "~", "~", "~", "~", "~", "~", "~", "~", "~",
      "~", "~", "~", "~", "~" >>,
    <<
      "^", "^", "^", "^", " ", "^", "^", "^", " ", " ", "^", "^", "^", " ",
      " ", " ", "^", "^", "^", " ", " ", " ", " ", " ", "^", "^", "^", "^",
      " ", " ", " ", " ", " " >>,
    <<
      "^", "^", "^", "^", " ", " ", " ", " ", " ", " ", "^", "^", "^", "^",
      " ", " ", " ", " ", " ", "^", "^", "^", " ", " ", " ", " ", " ", "^",
      "^", " ", " ", " ", " ", " " >>,
    <<
      "^", "^", " ", " ", " ", " ", " ", " ", "^", "^", "^", "^", " ", " ",
      " ", " ", " ", " ", " ", "^", "^", "^", " ", " ", " ", " ", " ", "^",
      "^", "^", "^", "^", "^", " " >>
    >>

RECURSIVE Tile(_, _)
Tile(seg, n) == IF n <= 0 THEN <<>> ELSE seg \o Tile(seg, n - 1)

Prefix(s, n) == SubSeq(s, 1, IF n < Len(s) THEN Max2(n, 0) ELSE Len(s))

WaterLineDepth(i) ==
    CASE i = 0 -> DEPTH.water_line0
      [] i = 1 -> DEPTH.water_line1
      [] i = 2 -> DEPTH.water_line2
      [] i = 3 -> DEPTH.water_line3

CreateEnvironment(nid, W, H, t) ==
    LET segment_size == Len(WaterLineSegmentShapes[1])
        segment_repeat == (W \div segment_size) + 2
    IN  [k \in 1..Len(WaterLineSegmentShapes) |->
            Entity(nid + k,
              [EntityDefaults EXCEPT
                 !.type = "waterline",
                 !.shape = Prefix(Tile(WaterLineSegmentShapes[k], segment_repeat), W),
                 !.pos = <<0, Scale * (k - 1 + 5), WaterLineDepth(k - 1)>>,
                 !.default_color_char = "c",
                 !.physical = TRUE], t)]

(* create_seaweed: the two frames are built line by line, then rstrip().   *)
RECURSIVE SeaweedFrame(_, _, _)
SeaweedFrame(side, i, h) ==
    IF i >= h THEN <<>>
    ELSE (IF i % 2 = side THEN <<" ", "(", NL>> ELSE <<")", NL>>)
         \o SeaweedFrame(side, i + 1, h)

RECURSIVE RStrip(_)
RStrip(s) ==
    IF s /= <<>> /\ s[Len(s)] \in {NL, " "} THEN RStrip(SubSeq(s, 1, Len(s) - 1)) ELSE s

(* random.randint(3, 6), sampled. *)
SeaweedHeights == {3}

(* random.uniform(0.25, 0.30) seconds between frames, shortened. *)
SeaweedAnimSpeeds == {2}

(* random.randint(480, 720) seconds of life, shortened. *)
SeaweedLifetimes == {2}

CreateSeaweed(nid, W, H, t) ==
    { << Entity(nid + 1,
            [EntityDefaults EXCEPT
                !.type = "seaweed",
                !.shape = << RStrip(SeaweedFrame(0, 0, h)), RStrip(SeaweedFrame(1, 0, h)) >>,
                !.shape_is_list = TRUE,
                !.pos = <<Scale * x, Scale * Max2(0, H - h - 1), DEPTH.seaweed>>,
                !.anim_speed = a,
                !.die_time = t + life,
                !.death_cb = "create_seaweed",
                !.default_color_char = "g"], t) >> :
        <<h, x, a, life>> \in SeaweedHeights \X (1..Max2(1, W - 2 - 1))
                              \X SeaweedAnimSpeeds \X SeaweedLifetimes }

(* create_shark: the teeth entity, then the shark that holds a reference   *)
(* to it.  dir = 0 moves right from the left edge, dir = 1 moves left.      *)
(* The art is 61 and 56 columns wide in the code, with the teeth 26 and 14  *)
(* columns in; it is 6 columns wide here, with the teeth 3 and 2 columns in, *)
(* which keeps 26 + speed + 1 <= 61 and 14 >= speed for the speed of 2.      *)
SharkImage ==
    << <<NL, " ", " ", "_", "_", NL, "(", "_", "_", "_", "_", ">", NL>>,
       <<NL, " ", " ", "_", "_", NL, "<", "_", "_", "_", "_", ")", NL>> >>

SharkMask ==
    << <<NL, NL, " ", " ", "c", "R", NL>>,
       <<NL, NL, "R", "c", NL>> >>

(* create_shark: where the teeth are put, relative to the shark. *)
teeth_offset_x(dir) == IF dir = 0 THEN 3 ELSE 2

teeth_offset_y == 1

CreateShark(nid, W, H, t) ==
    { LET shark_shape == SharkImage[dir + 1]
          shark_width == RawWidth(shark_shape)
          vx == IF dir = 0 THEN 2 * Scale ELSE -2 * Scale
          x == IF dir = 0 THEN -Scale * shark_width ELSE Scale * W
      IN  << Entity(nid + 1,
               [EntityDefaults EXCEPT
                  !.type = "teeth",
                  !.shape = <<"*">>,
                  !.pos = <<x + Scale * teeth_offset_x(dir),
                            Scale * (y + teeth_offset_y), DEPTH.shark + 1>>,
                  !.velocity = <<vx, 0, 0>>,
                  !.physical = TRUE,
                  !.die_offscreen = TRUE], t),
             Entity(nid + 2,
               [EntityDefaults EXCEPT
                  !.type = "shark",
                  !.shape = shark_shape,
                  !.color_map = SharkMask[dir + 1],
                  !.auto_trans = TRUE,
                  !.pos = <<x, Scale * y, DEPTH.shark>>,
                  !.default_color_char = "C",
                  !.velocity = <<vx, 0, 0>>,
                  !.die_offscreen = TRUE,
                  !.death_cb = "shark_death",
                  !.death_cb_args = <<nid + 1>>], t) >> :
        <<dir, y>> \in { c \in {0, 1} \X (0..(H + 9)) :
            c[2] \in 9..Max2(9, H - CountNL(SharkImage[c[1] + 1]) - 1) } }

(* create_ship *)
ShipImage ==
    << <<NL, " ", "|", ">", NL, "\\", "_", "/", NL>>,
       <<NL, "<", "|", NL, "\\", "_", "/", NL>> >>

CreateShip(nid, W, H, t) ==
    { << Entity(nid + 1,
            [EntityDefaults EXCEPT
                !.type = "ship",
                !.shape = ShipImage[dir + 1],
                !.color_map = <<NL, " ", "y", "w", NL, "y", "y", "y", NL>>,
                !.auto_trans = TRUE,
                !.pos = <<IF dir = 0 THEN -Scale * RawWidth(ShipImage[dir + 1])
                          ELSE Scale * W, 0, DEPTH.water_gap1>>,
                !.default_color_char = "Y",
                !.velocity = <<IF dir = 0 THEN Scale ELSE -Scale, 0, 0>>,
                !.die_offscreen = TRUE,
                !.death_cb = "create_random_object"], t) >> : dir \in {0, 1} }

(* create_whale: frames of spout + whale; starts a margin beyond the edge. *)
WhaleImage ==
    << <<NL, "(", "o", ")", NL>>, <<NL, "(", "o", ")", NL>> >>

WhaleMargin == 5

CreateWhale(nid, W, H, t) ==
    { LET base == WhaleImage[dir + 1]
          whale_width == RawWidth(base)
          shapes == << <<NL, NL>> \o StripNL(base),
                       <<" ", ":", NL>> \o StripNL(base) >>
      IN  << Entity(nid + 1,
               [EntityDefaults EXCEPT
                  !.type = "whale",
                  !.shape = shapes,
                  !.shape_is_list = TRUE,
                  !.color_map = << <<NL>> \o <<NL, "B", "W", "B", NL>>,
                                   <<NL>> \o <<NL, "B", "W", "B", NL>> >>,
                  !.color_map_is_list = TRUE,
                  !.auto_trans = TRUE,
                  !.pos = <<IF dir = 0 THEN -Scale * whale_width - Scale * WhaleMargin
                            ELSE Scale * W + Scale * WhaleMargin, 0, DEPTH.water_gap2>>,
                  !.default_color_char = "B",
                  !.velocity = <<IF dir = 0 THEN Scale ELSE -Scale, 0, 0, <<1, 1>> >>,
                  !.anim_speed = 3,
                  !.die_offscreen = TRUE,
                  !.death_cb = "create_random_object"], t) >> : dir \in {0, 1} }

(* create_monster_entity *)
MonsterData ==
    << << <<NL, "~", "o", NL>>, <<NL, "-", "o", NL>> >>,
       << <<NL, "o", "~", NL>>, <<NL, "o", "-", NL>> >> >>

CreateMonster(nid, W, H, t) ==
    { LET shapes == MonsterData[dir + 1]
          mon_width == TempWidth(shapes[1])
      IN  << Entity(nid + 1,
               [EntityDefaults EXCEPT
                  !.type = "monster",
                  !.shape = shapes,
                  !.shape_is_list = TRUE,
                  !.color_map = [i \in 1..Len(shapes) |-> <<NL, "G", "W", NL>>],
                  !.color_map_is_list = TRUE,
                  !.auto_trans = TRUE,
                  !.pos = <<IF dir = 0 THEN -Scale * mon_width ELSE Scale * W,
                            Scale * 2, DEPTH.water_gap2>>,
                  !.default_color_char = "G",
                  !.velocity = <<IF dir = 0 THEN 2 * Scale ELSE -2 * Scale, 0, 0, <<1, 4>> >>,
                  !.anim_speed = 1,
                  !.die_offscreen = TRUE,
                  !.death_cb = "create_random_object"], t) >> : dir \in {0, 1} }

(* create_big_fish_1 / create_big_fish_2 *)
BigFishImage ==
    << <<NL, "/", "\\", NL, "\\", "/", ">", NL>>,
       <<NL, " ", "/", "\\", NL, "<", "\\", "/", NL>> >>

CreateBigFish(nid, W, H, t) ==
    { LET shape == BigFishImage[dir + 1]
      IN  << Entity(nid + 1,
               [EntityDefaults EXCEPT
                  !.type = "big_fish",
                  !.shape = shape,
                  !.color_map = RandColorMask(<<NL, "1", "2", NL, "1", "1", "W", NL>>, color),
                  !.auto_trans = TRUE,
                  !.pos = <<IF dir = 0 THEN -Scale * RawWidth(shape) ELSE Scale * W,
                            Scale * y, DEPTH.shark>>,
                  !.default_color_char = "Y",
                  !.velocity = <<IF dir = 0 THEN 3 * Scale ELSE -3 * Scale, 0, 0>>,
                  !.die_offscreen = TRUE,
                  !.death_cb = "create_random_object"], t) >> :
        <<dir, color, y>> \in { c \in {0, 1} \X MaskColors \X (0..(H + 9)) :
            c[3] \in 9..Max2(9, H - CountNL(BigFishImage[c[1] + 1]) - 1) } }

(* RANDOM_OBJECT_POOL and create_random_object *)
CreateRandomObject(nid, W, H, t) ==
    CreateShip(nid, W, H, t) \cup CreateWhale(nid, W, H, t)
    \cup CreateMonster(nid, W, H, t) \cup CreateBigFish(nid, W, H, t)
    \cup CreateShark(nid, W, H, t)

(* create_castle: drawn here as a tower of two rows. *)
CastleImage == <<NL, " ", "T", "~", NL, "[", "_", "]", NL>>

CastleMask == <<NL, " ", "R", "R", NL, "[", "W", "]", NL>>

CreateCastle(nid, W, H, t) ==
    LET castle_height == CountNL(CastleImage)
        castle_width == RawWidth(CastleImage)
    IN  << Entity(nid + 1,
             [EntityDefaults EXCEPT
                !.type = "",
                !.shape = CastleImage,
                !.color_map = CastleMask,
                !.pos = <<Scale * Max2(0, W - castle_width - 1),
                          Scale * Max2(0, H - castle_height - 1), DEPTH.castle>>,
                !.default_color_char = "y"], t) >>

(* create_all_seaweed and create_all_fish: n calls of the spawn function. *)
RECURSIVE SeaweedTimes(_, _, _, _, _)
SeaweedTimes(n, nid, W, H, t) ==
    IF n = 0 THEN { <<>> }
    ELSE { a \o b : a \in CreateSeaweed(nid, W, H, t),
                    b \in SeaweedTimes(n - 1, nid + 1, W, H, t) }

seaweed_count(W) == Max2(1, W \div 15)

CreateAllSeaweed(nid, W, H, t) == SeaweedTimes(seaweed_count(W), nid, W, H, t)

RECURSIVE FishTimes(_, _, _, _, _, _)
FishTimes(n, nid, NEW_FISH, W, H, t) ==
    IF n = 0 THEN { <<>> }
    ELSE { a \o b : a \in CreateFish(nid, NEW_FISH, W, H, t),
                    b \in FishTimes(n - 1, nid + 1, NEW_FISH, W, H, t) }

fish_count(W, H) == Max2(1, (Max2(1, H - 9) * W) \div 350)

CreateAllFish(nid, NEW_FISH, W, H, t) ==
    FishTimes(fish_count(W, H), nid, NEW_FISH, W, H, t)

PopulationBare(nid, NEW_FISH, W, H, t) == { CreateEnvironment(nid, W, H, t) }

(* run(), lines 466-472 and again 496-500 and 510-514: the initial scene.  *)
Population(nid, NEW_FISH, W, H, t) ==
    LET n1 == nid + 4
        n2 == n1 + 1
        n3 == n2 + seaweed_count(W)
        n4 == n3 + fish_count(W, H)
    IN  { CreateEnvironment(nid, W, H, t) \o CreateCastle(n1, W, H, t) \o sw \o fs \o sp :
            sw \in CreateAllSeaweed(n2, W, H, t),
            fs \in CreateAllFish(n3, NEW_FISH, W, H, t),
            sp \in CreateRandomObject(n4, W, H, t) }

---------------------------------------------------------------------------
(* class Animation *)

Ids(ents) == {ents[i].id : i \in 1..Len(ents)}

(* The place of the object with this id in the list, 0 when it is not in it *)
(* (list.remove raising ValueError, lines 311-315).                         *)
IndexOf(ents, id) ==
    IF \E i \in 1..Len(ents) : ents[i].id = id
    THEN CHOOSE i \in 1..Len(ents) : ents[i].id = id
    ELSE 0

(* Animation.remove_entity: the list without the object. *)
RemoveEntityNoop(ents, id) == ents

RemoveEntity(ents, id) == SelectSeq(ents, LAMBDA e : e.id /= id)

(* Animation.remove_entity, lines 311-315: needs_redraw is set when the     *)
(* object was in the list; list.remove raises ValueError when it was not,   *)
(* and the handler passes.                                                  *)
RemoveRedrawAlways(ents, id, flag) == TRUE

RemoveRedraw(ents, id, flag) == IF IndexOf(ents, id) /= 0 THEN TRUE ELSE flag

(* Animation.check_collisions, line 354: the teeth point is in the fish box *)
HitInclusive(teeth, fish) ==
    LET tx == PyInt(teeth.x)
        ty == PyInt(teeth.y)
        fx == PyInt(fish.x)
        fy == PyInt(fish.y)
    IN  /\ fx <= tx /\ tx <= fx + fish._width
        /\ fy <= ty /\ ty <= fy + fish._height

Hit(teeth, fish) ==
    LET tx == PyInt(teeth.x)
        ty == PyInt(teeth.y)
        fx == PyInt(fish.x)
        fy == PyInt(fish.y)
    IN  /\ fx <= tx /\ tx < fx + fish._width
        /\ fy <= ty /\ ty < fy + fish._height

(* check_collisions, lines 356 and 358: an entity takes a collision entry  *)
(* only if it has a collision handler.                                     *)
RecordsAlways(e) == TRUE

Records(e) == e.coll_handler /= "None"

(* check_collisions, line 339: the physical entities that are alive. *)
PhysicalEntitiesAll(ents) == SelectSeq(ents, LAMBDA e : e.physical)

PhysicalEntities(ents) == SelectSeq(ents, LAMBDA e : e.physical /\ e.is_alive)

(* Animation.check_collisions: the list with the collisions recorded. *)
CheckCollisions(ents) ==
    LET physical_entities == PhysicalEntities(ents)
        teeth_list == SelectSeq(physical_entities, LAMBDA e : e.type = "teeth")
        fish_list == SelectSeq(physical_entities, LAMBDA e : e.type = "fish")
    IN  IF teeth_list = <<>> THEN ents
        ELSE LET teeth == teeth_list[1]
                 hits == SelectSeq(fish_list, LAMBDA f : Hit(teeth, f))
                 hit_ids == [i \in 1..Len(hits) |-> hits[i].id]
             IN  [i \in 1..Len(ents) |->
                    IF ents[i].id \in Ids(hits) /\ Records(ents[i])
                    THEN [ents[i] EXCEPT !.collisions = Append(@, teeth.id)]
                    ELSE IF ents[i].id = teeth.id /\ Records(teeth)
                    THEN [ents[i] EXCEPT !.collisions = @ \o hit_ids]
                    ELSE ents[i]]

(* The type of a recorded collision object. *)
TypeOf(ents, id) == IF IndexOf(ents, id) = 0 THEN "" ELSE ents[IndexOf(ents, id)].type

CollidedWith(ents, e, type) ==
    \E k \in 1..Len(e.collisions) : TypeOf(ents, e.collisions[k]) = type

FishEatenFirst(ents, fish) ==
    /\ fish.collisions /= <<>>
    /\ TypeOf(ents, fish.collisions[1]) = "teeth"
    /\ fish._height <= 5

(* fish_collision: the fish is eaten when it met the teeth and is small. *)
FishEaten(ents, fish) == CollidedWith(ents, fish, "teeth") /\ fish._height <= 5

(* bubble_collision *)
BubblePopped(ents, bubble) == CollidedWith(ents, bubble, "waterline")

(* Entity.handle_collisions on the entity at place i: the handler runs when *)
(* there is one and collisions were recorded, and the list is cleared.      *)
HandlerRunsNoList(e) == e.coll_handler /= "None"

HandlerRuns(e) == e.coll_handler /= "None" /\ e.collisions /= <<>>

HandleCollisions(ents, i, nid, t) ==
    LET e == ents[i]
        eaten == HandlerRuns(e) /\ e.coll_handler = "fish_collision" /\ FishEaten(ents, e)
        popped == HandlerRuns(e) /\ e.coll_handler = "bubble_collision"
                  /\ BubblePopped(ents, e)
        after == IF eaten \/ popped THEN Kill(e) ELSE e
        cleared == [after EXCEPT !.collisions = <<>>]
    IN  [ents EXCEPT ![i] = cleared]
        \o (IF eaten THEN CreateSplat(nid, e.x, e.y, e.z, t) ELSE <<>>)

(* A death callback that adds nothing. *)
DeathSpawnsNothing(cb, nid, NEW_FISH, W, H, t) == { <<>> }

DeathSpawnsTwoSharks(cb, nid, NEW_FISH, W, H, t) ==
    IF cb = "None" THEN { <<>> }
    ELSE { a \o b : a \in CreateShark(nid, W, H, t), b \in CreateShark(nid + 2, W, H, t) }

(* What a death callback may add to the scene (each a list of new          *)
(* entities); a callback that is None adds nothing.                        *)
DeathSpawns(cb, nid, NEW_FISH, W, H, t) ==
    CASE cb = "create_seaweed" -> CreateSeaweed(nid, W, H, t)
      [] cb = "create_fish" -> CreateFish(nid, NEW_FISH, W, H, t)
      [] cb = "create_random_object" -> CreateRandomObject(nid, W, H, t)
      [] cb = "shark_death" -> CreateRandomObject(nid, W, H, t)
      [] OTHER -> { <<>> }

(* shark_death: kill() on the teeth object the shark was created with. *)
KillArgs(ents, e) ==
    IF e.death_cb = "shark_death" /\ e.death_cb_args /= <<>>
       /\ IndexOf(ents, e.death_cb_args[1]) /= 0
    THEN [ents EXCEPT ![IndexOf(ents, e.death_cb_args[1])] = Kill(@)]
    ELSE ents

(* History: the kill() calls a step made, as the entities that were alive   *)
(* before it and are dead after it.                                        *)
KillEvents(old, new) ==
    LET killed == SelectSeq(old, LAMBDA e :
                     e.is_alive /\ IndexOf(new, e.id) /= 0
                     /\ ~new[IndexOf(new, e.id)].is_alive)
    IN  [i \in 1..Len(killed) |-> <<"kill", killed[i].id>>]

(* NEW_FISH, line 47 (classic mode is not modelled). *)
NEW_FISH == TRUE

(* The number of Entity objects the run may construct: death_calls has one  *)
(* counter for each of them, and one to spare.                             *)
IdLimit == Len(death_calls) - 1

(* stdscr.getmaxyx(): the terminal sizes of the model, (height, width). *)
Sizes == { <<11, 4>> }

Init ==
    /\ entities = <<>>
    /\ \E sz \in Sizes : height = sz[1] /\ width = sz[2]
    /\ paused = FALSE
    /\ needs_redraw = TRUE
    /\ now = 0
    /\ pc = "setup"
    /\ idx = 1
    /\ dead_entities = <<>>
    /\ next_id = 0
    /\ log = <<>>
    /\ death_calls = [i \in 1..(MaxIds + 1) |-> 0]
    /\ screen = <<>>

(* Where animate() goes when a for loop over a list has reached place i. *)
AfterUpdateEarly(i, ents) == "collide"

AfterUpdateSkipsLast(i, ents) == IF i >= Len(ents) THEN "collide" ELSE "update"

AfterUpdate(i, ents) == IF i > Len(ents) THEN "collide" ELSE "update"

AfterCollide(ents) == IF ents = <<>> THEN "draw" ELSE "dispatch"

AfterDispatch(i, ents, dead) ==
    IF i <= Len(ents) THEN "dispatch"
    ELSE IF dead = <<>> THEN "draw" ELSE "death_cb"

AfterRemoveOnce(i, dead) == "draw"

AfterRemove(i, dead) == IF i > Len(dead) THEN "draw" ELSE "death_cb"

(* animate(), lines 393-394: a dead entity goes on the list dead_entities.  *)
(* The list holds the object: its id and the callback fields, which never   *)
(* change after construction.                                               *)
DeadRef(e) == [id |-> e.id, death_cb |-> e.death_cb, death_cb_args |-> e.death_cb_args]

DeadListNever(dead, e) == dead

DeadListTwice(dead, e) ==
    IF e.is_alive THEN dead ELSE dead \o <<DeadRef(e), DeadRef(e)>>

DeadList(dead, e) == IF e.is_alive THEN dead ELSE Append(dead, DeadRef(e))

(* run(), lines 519-521: animate() is entered unless paused. *)
AfterInputAnimates(is_paused, ents) == AfterUpdate(1, ents)

AfterInput(is_paused, ents) == IF is_paused THEN "draw" ELSE AfterUpdate(1, ents)

(* run(), lines 482-521: one key is read and handled, then animate() is     *)
(* entered unless paused.  The keys are q, p, any other key ("x") and no    *)
(* key ("none"); r and KEY_RESIZE, which rebuild the population, are the    *)
(* actions Restart and Resize.                                              *)
Input(key) ==
    /\ pc = "input"
    /\ log' = <<>>
    /\ paused' = IF key = "p" THEN ~paused ELSE paused
    /\ idx' = 1
    /\ pc' = IF key = "q" THEN "quit" ELSE AfterInput(paused', entities)
    /\ UNCHANGED <<entities, width, height, needs_redraw, now, dead_entities,
                   next_id, death_calls, screen>>

(* animate(), lines 384-385: entity.update(self) on the entity at place idx, *)
(* with the custom update callback (fish_update: a bubble now and then).     *)
UpdateStep ==
    /\ pc = "update"
    /\ LET e == entities[idx]
           r == EntityUpdate(e, now, width, height)
           may_spawn == r.run_cb /\ r.ent.update_cb = "fish_update" /\ next_id < IdLimit
       IN  \E bubble \in (IF may_spawn THEN BOOLEAN ELSE {FALSE}) :
             /\ entities' = [entities EXCEPT ![idx] = r.ent]
                            \o (IF bubble THEN CreateBubble(next_id, r.ent, now) ELSE <<>>)
             /\ next_id' = IF bubble THEN next_id + 1 ELSE next_id
             /\ needs_redraw' = IF bubble THEN TRUE ELSE needs_redraw
             /\ log' = log \o << <<"update", e.id>> >>
                           \o KillEvents(entities, entities')
                           \o (IF r.run_cb THEN << <<"update_cb", e.id>> >> ELSE <<>>)
             /\ idx' = idx + 1
             /\ pc' = AfterUpdate(idx + 1, entities')
    /\ UNCHANGED <<width, height, paused, now, dead_entities, death_calls, screen>>

(* animate(), lines 388-391 *)
CollideStep ==
    /\ pc = "collide"
    /\ entities' = CheckCollisions(entities)
    /\ dead_entities' = <<>>
    /\ idx' = 1
    /\ log' = Append(log, <<"check_collisions", 0>>)
    /\ pc' = AfterCollide(entities)
    /\ UNCHANGED <<width, height, paused, needs_redraw, now, next_id, death_calls, screen>>

(* animate(), lines 392-396: the entity at place idx is put on the dead     *)
(* list, or its collisions are handled.                                     *)
DispatchStep ==
    /\ pc = "dispatch"
    /\ LET e == entities[idx]
           ents == IF e.is_alive THEN HandleCollisions(entities, idx, next_id, now)
                   ELSE entities
           spawned == Len(ents) - Len(entities)
       IN  /\ next_id + spawned <= IdLimit
           /\ entities' = ents
           /\ next_id' = next_id + spawned
           /\ needs_redraw' = IF spawned > 0 THEN TRUE ELSE needs_redraw
           /\ dead_entities' = DeadList(dead_entities, e)
           /\ log' = log \o (IF e.is_alive THEN << <<"handle_collisions", e.id>> >>
                             ELSE << <<"found_dead", e.id>> >>)
                         \o (IF e.is_alive /\ HandlerRuns(e)
                             THEN << <<"coll_handler", e.id>> >> ELSE <<>>)
                         \o KillEvents(entities, ents)
           /\ idx' = IF AfterDispatch(idx + 1, ents, dead_entities') = "dispatch"
                     THEN idx + 1 ELSE 1
           /\ pc' = AfterDispatch(idx + 1, ents, dead_entities')
    /\ UNCHANGED <<width, height, paused, now, death_calls, screen>>

(* animate(), lines 400-402: the death callback of the dead entity at place *)
(* idx of the dead list.                                                    *)
DeathCbStep ==
    /\ pc = "death_cb"
    /\ LET d == dead_entities[idx]
           id == d.id
           cb == d.death_cb
       IN  \E new \in DeathSpawns(cb, next_id, NEW_FISH, width, height, now) :
             /\ next_id + Len(new) <= IdLimit
             /\ entities' = KillArgs(entities, d) \o new
             /\ next_id' = next_id + Len(new)
             /\ needs_redraw' = IF new /= <<>> THEN TRUE ELSE needs_redraw
             /\ death_calls' = IF cb /= "None"
                               THEN [death_calls EXCEPT ![id] = @ + 1]
                               ELSE death_calls
             /\ log' = (IF cb /= "None" THEN Append(log, <<"death_cb", id>>) ELSE log)
                       \o KillEvents(entities, entities')
    /\ pc' = "remove"
    /\ UNCHANGED <<width, height, paused, now, idx, dead_entities, screen>>

(* animate(), line 403: remove_entity on the same dead entity. *)
RemoveStep ==
    /\ pc = "remove"
    /\ LET id == dead_entities[idx].id
       IN  /\ entities' = RemoveEntity(entities, id)
           /\ needs_redraw' = RemoveRedraw(entities, id, needs_redraw)
           /\ log' = Append(log, <<"remove", id>>)
    /\ idx' = IF AfterRemove(idx + 1, dead_entities) = "draw" THEN 1 ELSE idx + 1
    /\ pc' = AfterRemove(idx + 1, dead_entities)
    /\ UNCHANGED <<width, height, paused, now, dead_entities, next_id, death_calls, screen>>

(* draw_screen, line 415: sorted(self.entities, key=lambda e: e.z,         *)
(* reverse=True).  The sort is stable: entities of equal z keep their      *)
(* list order.                                                             *)
RECURSIVE InsertByZ(_, _)
InsertByZ(sorted, e) ==
    IF sorted = <<>> THEN <<e>>
    ELSE IF sorted[1].z >= e.z THEN <<sorted[1]>> \o InsertByZ(Tail(sorted), e)
    ELSE <<e>> \o sorted

RECURSIVE SortedEntitiesFrom(_, _)
SortedEntitiesFrom(ents, sorted) ==
    IF ents = <<>> THEN sorted
    ELSE SortedEntitiesFrom(Tail(ents), InsertByZ(sorted, ents[1]))

SortedEntitiesAscending(ents) ==
    LET d == SortedEntitiesFrom(ents, <<>>)
    IN  [k \in 1..Len(d) |-> d[Len(d) + 1 - k]]

SortedEntities(ents) == SortedEntitiesFrom(ents, <<>>)

(* draw_screen, lines 436-437: the character is skipped. *)
IsTransparentNever(e, char) == FALSE

IsTransparent(e, char) == char = e.transparent_char \/ (e.auto_trans /\ char = " ")

(* draw_screen, lines 428 and 434: the cell is inside the window. *)
RowInsideAlways(current_y, H) == TRUE

RowInside(current_y, H) == 0 <= current_y /\ current_y < H

ColInside(current_x, W) == 0 <= current_x /\ current_x < W

(* draw_screen, lines 429-443: the character whose attribute is used. *)
AttrChar(e, i, j) ==
    LET color_line == IF i <= Len(e._color_lines) THEN e._color_lines[i] ELSE <<>>
    IN  IF j <= Len(color_line) /\ color_line[j] /= " " /\ color_line[j] /= "?"
        THEN color_line[j]
        ELSE e.default_color_char

(* draw_screen, lines 423-452: the addch calls for one live entity, in the *)
(* order they are made: line by line, character by character.  i and j    *)
(* count from 1 here and from 0 in the code.                               *)
EntityCalls(e, W, H) ==
    LET start_x == PyInt(e.x)
        start_y == PyInt(e.y)
        w == Max2(e._width, 1)
        cells == [k \in 1..(Len(e._lines) * w) |-> <<((k - 1) \div w) + 1, ((k - 1) % w) + 1>>]
        drawn == SelectSeq(cells, LAMBDA c :
                    /\ c[2] <= Len(e._lines[c[1]])
                    /\ RowInside(start_y + c[1] - 1, H)
                    /\ ColInside(start_x + c[2] - 1, W)
                    /\ ~IsTransparent(e, e._lines[c[1]][c[2]]))
    IN  [k \in 1..Len(drawn) |->
            [row |-> start_y + drawn[k][1] - 1,
             col |-> start_x + drawn[k][2] - 1,
             char |-> e._lines[drawn[k][1]][drawn[k][2]],
             attr |-> AttrChar(e, drawn[k][1], drawn[k][2]),
             id |-> e.id]]

(* draw_screen, lines 417-452: every live entity, in sorted order. *)
RECURSIVE CallsOfWithDead(_, _, _)
CallsOfWithDead(sorted, W, H) ==
    IF sorted = <<>> THEN <<>>
    ELSE EntityCalls(sorted[1], W, H) \o CallsOfWithDead(Tail(sorted), W, H)

RECURSIVE CallsOf(_, _, _)
CallsOf(sorted, W, H) ==
    IF sorted = <<>> THEN <<>>
    ELSE (IF sorted[1].is_alive THEN EntityCalls(sorted[1], W, H) ELSE <<>>)
         \o CallsOf(Tail(sorted), W, H)

(* Animation.draw_screen: erase(), then the addch calls. *)
DrawScreen(ents, W, H) == CallsOf(SortedEntities(ents), W, H)

(* run(), lines 525-534: draw_screen() unless paused with nothing to redraw, *)
(* then the frame-limiting sleep: the next iteration starts 1..MaxDt frame   *)
(* delays after this one started.                                            *)
DrawsAlways == TRUE

Draws == ~paused \/ needs_redraw

DrawStep ==
    /\ pc = "draw"
    /\ needs_redraw' = IF Draws THEN FALSE ELSE needs_redraw
    /\ log' = IF Draws THEN Append(log, <<"draw_screen", 0>>) ELSE log
    /\ \E dt \in 1..MaxDt : now + dt <= MaxTime /\ now' = now + dt
    /\ screen' = IF Draws THEN DrawScreen(entities, width, height) ELSE screen
    /\ pc' = "input"
    /\ UNCHANGED <<entities, width, height, paused, idx, dead_entities, next_id,
                   death_calls>>

---------------------------------------------------------------------------
(* A collaborator of the scene: before the loop starts it may add entities *)
(* through add_entity.  It builds them as the spawn functions do, and puts *)
(* them where it likes.                                                    *)

PlaceAt(e, x, y) == [e EXCEPT !.x = Scale * x, !.y = Scale * y]

Shift(ents, dx) == [i \in 1..Len(ents) |-> [ents[i] EXCEPT !.x = @ + Scale * dx]]

(* The teeth of a shark pair, kept still at cell (x, y). *)
StillTeeth(pair, x, y) == [PlaceAt(pair[1], x, y) EXCEPT !.vx = 0]

Renumber(ents, nid) == [ents[1] EXCEPT !.id = nid]

Scenes(nid, W, H, t) ==
    { << StillTeeth(p, 2, 9), Renumber(<<PlaceAt(f[1], x, 9)>>, nid + 2),
         Renumber(w, nid + 3) >> :
          p \in CreateShark(nid, W, H, t),
          f \in CreateFish(nid, NEW_FISH, W, H, t), x \in {0, 2},
          w \in CreateSeaweed(nid, W, H, t) }
    \cup { Shift(p, IF p[2].vx > 0 THEN W + 1 ELSE -W - 1) : p \in CreateShark(nid, W, H, t) }

AddEntity ==
    /\ pc = "setup"
    /\ entities = <<>>
    /\ \E new \in Scenes(next_id, width, height, now) :
         /\ next_id + Len(new) <= IdLimit
         /\ entities' = entities \o new
         /\ next_id' = next_id + Len(new)
    /\ needs_redraw' = TRUE
    /\ UNCHANGED <<width, height, paused, now, pc, idx, dead_entities, log, death_calls, screen>>

(* The collaborator starts the loop. *)
Start ==
    /\ pc = "setup"
    /\ pc' = "input"
    /\ UNCHANGED <<entities, width, height, paused, needs_redraw, now, idx,
                   dead_entities, next_id, log, death_calls, screen>>

Keys == {"none", "p", "q"}

Next ==
    \/ AddEntity
    \/ Start
    \/ \E key \in Keys : Input(key)
    \/ UpdateStep
    \/ CollideStep
    \/ DispatchStep
    \/ DeathCbStep
    \/ RemoveStep
    \/ DrawStep

Spec == Init /\ [][Next]_vars

(* The loop without the collaborator's steps and without keys. *)
NextLoop ==
    \/ Input("none")
    \/ UpdateStep
    \/ CollideStep
    \/ DispatchStep
    \/ DeathCbStep
    \/ RemoveStep
    \/ DrawStep

---------------------------------------------------------------------------
(* One entity a collaborator constructs with options of its choice, in a   *)
(* scene of its own.                                                       *)

ThreeFrames == << <<"a">>, <<"b", "c">>, <<"d", NL, "e">> >>

TestVelocities ==
    { <<0, 0, 0>>, <<Scale, 0, 1>>, <<-Scale, 0, 0>>, <<0, Scale, 0>>, <<0, -1, 0>> }

TestEntities(W, H, t) ==
    { Entity(1,
        [EntityDefaults EXCEPT
            !.shape = IF c.frames = 3 THEN ThreeFrames ELSE <<"a">>,
            !.shape_is_list = (c.frames = 3),
            !.pos = <<Scale * c.pos[1], Scale * c.pos[2], 3>>,
            !.velocity = c.vel,
            !.anim_speed = c.anim_speed,
            !.die_offscreen = c.die_offscreen,
            !.die_time = c.die_time,
            !.die_frame = c.die_frame,
            !.update_cb = c.update_cb], t) :
        c \in { d \in [frames : {1, 3}, pos : {<<0, 0>>, <<W - 1, H - 1>>},
                       vel : TestVelocities, anim_speed : {0, 1, 2},
                       die_offscreen : BOOLEAN, die_time : {None, t + 2},
                       die_frame : {None, 2}, update_cb : {"None", "fish_update"}] :
                    d.frames = 1 => (d.anim_speed = 0 /\ d.die_frame = None) } }

InitEntity ==
    /\ \E sz \in Sizes : height = sz[1] /\ width = sz[2]
    /\ entities \in { <<e>> : e \in TestEntities(width, height, 0) }
    /\ paused = FALSE
    /\ needs_redraw = TRUE
    /\ now = 0
    /\ pc = "input"
    /\ idx = 1
    /\ dead_entities = <<>>
    /\ next_id = 1
    /\ log = <<>>
    /\ death_calls = [i \in 1..(MaxIds + 1) |-> 0]
    /\ screen = <<>>

EntitySpec == InitEntity /\ [][NextLoop]_vars

---------------------------------------------------------------------------
(* Scenes a collaborator builds to make entities meet: it takes entities   *)
(* from the spawn functions, places them, and may change one option.       *)

(* The fish of the spawn functions that swim to the right. *)
RightFish(nid, W, H, t) ==
    { f \in CreateFish(nid, NEW_FISH, W, H, t) : f[1].vx > 0 }

FishVariant(f, variant) ==
    CASE variant = "no_handler" -> [f EXCEPT !.coll_handler = "None"]
      [] variant = "not_physical" -> [f EXCEPT !.physical = FALSE]
      [] variant = "far_z" -> [f EXCEPT !.z = DEPTH.fish_end]
      [] variant = "die_time" -> [f EXCEPT !.die_time = 1]
      [] OTHER -> f

TeethVariant(teeth, variant) ==
    IF variant = "teeth_handler" THEN [teeth EXCEPT !.coll_handler = "bubble_collision"]
    ELSE teeth

Variants == {"plain", "no_handler", "not_physical", "far_z", "die_time", "teeth_handler"}

(* Still teeth at cell (2, 9) and one fish near them. *)
MeetingScenes(nid, W, H, t) ==
    { << TeethVariant(StillTeeth(p, 2, 9), v),
         Renumber(<<FishVariant(PlaceAt(f[1], x, y), v)>>, nid + 2) >> :
          p \in CreateShark(nid, W, H, t), f \in RightFish(nid, W, H, t),
          x \in {0, 2}, y \in {8, 9, 10}, v \in Variants }

(* A shark and its teeth as create_shark makes them, and a fish in the row *)
(* of the teeth.                                                           *)
SharkScenes(nid, W, H, t) ==
    { p \o << Renumber(<<PlaceAt(f[1], x, PyInt(p[1].y))>>, nid + 3) >> :
          p \in CreateShark(nid, W, H, t), f \in CreateFish(nid, NEW_FISH, W, H, t),
          x \in {0, 1, 2} }

(* The water line as create_environment makes it, and a bubble as          *)
(* create_bubble makes it for a fish at cell (x, 9).                       *)
BubbleScenes(nid, W, H, t) ==
    { CreateEnvironment(nid, W, H, t)
      \o CreateBubble(nid + 4, PlaceAt(f[1], x, 9), t) :
          f \in CreateFish(nid, NEW_FISH, W, H, t), x \in {1, 2} }

CollideScenes(nid, W, H, t) ==
    MeetingScenes(nid, W, H, t) \cup SharkScenes(nid, W, H, t)
    \cup BubbleScenes(nid, W, H, t)

InitCollide ==
    /\ \E sz \in Sizes : height = sz[1] /\ width = sz[2]
    /\ entities \in CollideScenes(0, width, height, 0)
    /\ paused = FALSE
    /\ needs_redraw = TRUE
    /\ now = 0
    /\ pc = "input"
    /\ idx = 1
    /\ dead_entities = <<>>
    /\ next_id = Len(entities)
    /\ log = <<>>
    /\ death_calls = [i \in 1..(MaxIds + 1) |-> 0]
    /\ screen = <<>>

CollideSpec == InitCollide /\ [][NextLoop]_vars

---------------------------------------------------------------------------
(* run() as the program starts it: the initial scene is built, then the    *)
(* loop runs with its keys.  'r' and a KEY_RESIZE that finds a new terminal *)
(* size drop every entity and build the scene again.  Nothing refers to a   *)
(* dropped entity any more (the dead list of animate() is gone when it      *)
(* returns), so the new ones take the ids from 1 again.                     *)

RunSizes == { <<11, 4>>, <<11, 5>> }

(* How many entities a run may add to a scene it has built. *)
RunSpawns == 2

(* How many frame delays before MaxTime the run starts. *)
RunTicks == 1

(* run(), lines 466-472: create_environment, create_castle,                 *)
(* create_all_seaweed, create_all_fish and one object of the pool; then the *)
(* loop starts.                                                             *)
Setup ==
    /\ pc = "start"
    /\ entities' \in Population(0, NEW_FISH, width, height, now)
    /\ next_id' = Len(entities')
    /\ death_calls' = [i \in 1..(Len(entities') + RunSpawns + 1) |-> 0]
    /\ needs_redraw' = TRUE
    /\ pc' = "input"
    /\ UNCHANGED <<width, height, paused, now, idx, dead_entities, log, screen>>

PopulateKeepsPause ==
    /\ pc = "populate"
    /\ entities' \in Population(0, NEW_FISH, width, height, now)
    /\ next_id' = Len(entities')
    /\ death_calls' = [i \in 1..(Len(entities') + RunSpawns + 1) |-> 0]
    /\ needs_redraw' = TRUE
    /\ log' = <<>>
    /\ pc' = AfterUpdate(1, entities')
    /\ UNCHANGED <<width, height, paused, now, idx, dead_entities, screen>>

(* run(), lines 496-502 and 510-515: the same five calls after a key, then  *)
(* paused = False; line 502 sets needs_redraw, as add_entity has done.      *)
Populate ==
    /\ pc = "populate"
    /\ entities' \in Population(0, NEW_FISH, width, height, now)
    /\ next_id' = Len(entities')
    /\ death_calls' = [i \in 1..(Len(entities') + RunSpawns + 1) |-> 0]
    /\ paused' = FALSE
    /\ needs_redraw' = TRUE
    /\ log' = <<>>
    /\ pc' = AfterUpdate(1, entities')
    /\ UNCHANGED <<width, height, now, idx, dead_entities, screen>>

(* remove_all_entities(), as the keys call it. *)
RemoveAllEntitiesLeaves ==
    /\ entities' = entities
    /\ needs_redraw' = TRUE
    /\ dead_entities' = <<>>
    /\ next_id' = 0
    /\ death_calls' = <<0>>
    /\ idx' = 1
    /\ pc' = "populate"

RemoveAllEntities ==
    /\ entities' = <<>>
    /\ needs_redraw' = TRUE
    /\ dead_entities' = <<>>
    /\ next_id' = 0
    /\ death_calls' = <<0>>
    /\ idx' = 1
    /\ pc' = "populate"

(* run(), lines 494-495: the key 'r'. *)
Restart ==
    /\ pc = "input"
    /\ RemoveAllEntities
    /\ log' = <<>>
    /\ UNCHANGED <<width, height, paused, now, screen>>

(* run(), lines 504-509, and update_term_size: the key KEY_RESIZE with the  *)
(* terminal at size sz.  A size that is not new changes nothing.  History:  *)
(* the call of update_term_size that found a new size.                      *)
Resize(sz) ==
    /\ pc = "input"
    /\ IF sz /= <<height, width>>
       THEN /\ height' = sz[1]
            /\ width' = sz[2]
            /\ screen' = <<>>
            /\ RemoveAllEntities
            /\ log' = << <<"update_term_size", 0>> >>
       ELSE /\ UNCHANGED <<height, width, screen, entities, needs_redraw,
                           dead_entities, next_id, death_calls>>
            /\ log' = <<>>
            /\ idx' = 1
            /\ pc' = AfterInput(paused, entities)
    /\ UNCHANGED <<paused, now>>

RunKeys == {"none", "p", "q", "x"}

NextRun ==
    \/ Setup
    \/ \E key \in RunKeys : Input(key)
    \/ Restart
    \/ \E sz \in RunSizes : Resize(sz)
    \/ Populate
    \/ UpdateStep
    \/ CollideStep
    \/ DispatchStep
    \/ DeathCbStep
    \/ RemoveStep
    \/ DrawStep

InitRun ==
    /\ \E sz \in Sizes : height = sz[1] /\ width = sz[2]
    /\ entities = <<>>
    /\ paused = FALSE
    /\ needs_redraw = TRUE
    /\ now = MaxTime - RunTicks
    /\ pc = "start"
    /\ idx = 1
    /\ dead_entities = <<>>
    /\ next_id = 0
    /\ log = <<>>
    /\ death_calls = <<0>>
    /\ screen = <<>>

RunSpec == InitRun /\ [][NextRun]_vars

---------------------------------------------------------------------------
(* A scene of seaweed only, as create_seaweed makes them. *)

SeaweedN == 2

InitSeaweed ==
    /\ \E sz \in RunSizes : height = sz[1] /\ width = sz[2]
    /\ entities \in SeaweedTimes(SeaweedN, 0, width, height, 0)
    /\ paused = FALSE
    /\ needs_redraw = TRUE
    /\ now = 0
    /\ pc = "input"
    /\ idx = 1
    /\ dead_entities = <<>>
    /\ next_id = Len(entities)
    /\ log = <<>>
    /\ death_calls = [i \in 1..(MaxIds + 1) |-> 0]
    /\ screen = <<>>

SeaweedSpec == InitSeaweed /\ [][NextLoop]_vars

----------------------------------------------------------------------------
(* A collaborator that fills the collision list of a fish between two      *)
(* iterations (Entity.collisions is a plain list, line 158) with entities   *)
(* of the scene; the dispatch of the next tick hands the list to            *)
(* fish_collision.                                                          *)

MaxList == 2

CollisionLists(ids) ==
    UNION { [1..n -> ids] : n \in 1..MaxList }

SetCollisions ==
    /\ pc = "input"
    /\ \E i \in 1..Len(entities) :
          /\ entities[i].type = "fish"
          /\ entities[i].is_alive
          /\ entities[i].collisions = <<>>
          /\ \E list \in CollisionLists(Ids(entities) \ {entities[i].id}) :
                entities' = [entities EXCEPT ![i].collisions = list]
    /\ UNCHANGED <<width, height, paused, needs_redraw, now, pc, idx, dead_entities,
                   next_id, log, death_calls, screen>>

InitHandler ==
    /\ \E sz \in Sizes : height = sz[1] /\ width = sz[2]
    /\ entities \in Scenes(0, width, height, 0)
    /\ paused = FALSE
    /\ needs_redraw = TRUE
    /\ now = 0
    /\ pc = "input"
    /\ idx = 1
    /\ dead_entities = <<>>
    /\ next_id = Len(entities)
    /\ log = <<>>
    /\ death_calls = [i \in 1..(MaxIds + 1) |-> 0]
    /\ screen = <<>>

NextHandler ==
    \/ Input("none")
    \/ SetCollisions
    \/ UpdateStep
    \/ CollideStep
    \/ DispatchStep
    \/ DeathCbStep
    \/ RemoveStep
    \/ DrawStep

HandlerSpec == InitHandler /\ [][NextHandler]_vars

----------------------------------------------------------------------------
(* A shark that leaves the window while its teeth stay inside, next to a    *)
(* fish: shark_death kills teeth that are still alive, and the fish may be  *)
(* eaten by its own collision handler.  The loop can be paused between two  *)
(* ticks.                                                                   *)

LingerScenes(nid, W, H, t) ==
    { << StillTeeth(p, 2, 9),
         Shift(p, IF p[2].vx > 0 THEN W + 1 ELSE -W - 1)[2],
         Renumber(<<PlaceAt(f[1], x, 9)>>, nid + 3) >> :
          p \in CreateShark(nid, W, H, t),
          f \in CreateFish(nid, NEW_FISH, W, H, t), x \in {0, 2} }

InitLinger ==
    /\ \E sz \in Sizes : height = sz[1] /\ width = sz[2]
    /\ entities \in LingerScenes(0, width, height, 0)
    /\ paused = FALSE
    /\ needs_redraw = TRUE
    /\ now = 0
    /\ pc = "input"
    /\ idx = 1
    /\ dead_entities = <<>>
    /\ next_id = Len(entities)
    /\ log = <<>>
    /\ death_calls = [i \in 1..(MaxIds + 1) |-> 0]
    /\ screen = <<>>

NextLinger ==
    \/ \E key \in {"none", "p"} : Input(key)
    \/ UpdateStep
    \/ CollideStep
    \/ DispatchStep
    \/ DeathCbStep
    \/ RemoveStep
    \/ DrawStep

LingerSpec == InitLinger /\ [][NextLinger]_vars

----------------------------------------------------------------------------
(* A long run of the loop over a fish and what it spawns.  run() is a       *)
(* sequential `while True` loop whose steps all return and whose sleep is   *)
(* finite, so a step that can be taken is taken: weak fairness on the loop. *)
(* The run is followed for LiveTime iterations of one frame delay each and   *)
(* constructs at most LiveIds entities.                                     *)

LiveTime == 30
LiveIds == 3

DrawStepLive ==
    /\ pc = "draw"
    /\ needs_redraw' = IF Draws THEN FALSE ELSE needs_redraw
    /\ log' = IF Draws THEN Append(log, <<"draw_screen", 0>>) ELSE log
    /\ now + 1 <= LiveTime
    /\ now' = now + 1
    /\ screen' = IF Draws THEN DrawScreen(entities, width, height) ELSE screen
    /\ pc' = "input"
    /\ UNCHANGED <<entities, width, height, paused, idx, dead_entities, next_id,
                   death_calls>>

InitLive ==
    /\ \E sz \in Sizes : height = sz[1] /\ width = sz[2]
    /\ entities \in CreateFish(0, NEW_FISH, width, height, 0)
    /\ paused = FALSE
    /\ needs_redraw = TRUE
    /\ now = 0
    /\ pc = "input"
    /\ idx = 1
    /\ dead_entities = <<>>
    /\ next_id = Len(entities)
    /\ log = <<>>
    /\ death_calls = [i \in 1..(LiveIds + 1) |-> 0]
    /\ screen = <<>>

NextLive ==
    \/ Input("none")
    \/ UpdateStep
    \/ CollideStep
    \/ DispatchStep
    \/ DeathCbStep
    \/ RemoveStep
    \/ DrawStepLive

(* The death pass cannot construct the successor of a dead entity because  *)
(* LiveIds entities have been constructed.                                  *)
OutOfIds ==
    /\ pc = "death_cb"
    /\ dead_entities[idx].death_cb /= "None"
    /\ next_id + 1 > IdLimit

(* The run has come to the end of what is followed. *)
Halted == (pc = "draw" /\ now + 1 > LiveTime) \/ OutOfIds

(* A step of the loop as its position shows it: every step of NextLive     *)
(* changes pc or idx, nothing else does, and a step is possible exactly     *)
(* when the run is not Halted.                                              *)
Tick ==
    /\ ~Halted
    /\ pc' \in {"input", "update", "collide", "dispatch", "death_cb", "remove", "draw"}
    /\ idx' \in 1..(LiveIds + 1)

LiveSpec == InitLive /\ [][NextLive]_vars /\ WF_<<pc, idx>>(Tick)

----------------------------------------------------------------------------
(* A shark and its teeth as create_shark makes them, and a collaborator     *)
(* that kept references to entities the scene has dropped: between two      *)
(* iterations it may call remove_entity on one of them.                     *)

(* Animation.remove_entity, called with the object that had the id.         *)
(* History: the call, once for an object in an iteration.                   *)
StaleRemove ==
    /\ pc = "input"
    /\ \E id \in (1..next_id) \ Ids(entities) :
          /\ \A i \in 1..Len(log) : log[i] /= <<"remove_entity", id>>
          /\ entities' = RemoveEntity(entities, id)
          /\ needs_redraw' = RemoveRedraw(entities, id, needs_redraw)
          /\ log' = Append(log, <<"remove_entity", id>>)
    /\ UNCHANGED <<width, height, paused, now, pc, idx, dead_entities, next_id,
                   death_calls, screen>>

InitStale ==
    /\ \E sz \in Sizes : height = sz[1] /\ width = sz[2]
    /\ entities \in CreateShark(0, width, height, 0)
    /\ paused = FALSE
    /\ needs_redraw = TRUE
    /\ now = 0
    /\ pc = "input"
    /\ idx = 1
    /\ dead_entities = <<>>
    /\ next_id = Len(entities)
    /\ log = <<>>
    /\ death_calls = [i \in 1..(MaxIds + 1) |-> 0]
    /\ screen = <<>>

NextStale ==
    \/ Input("none")
    \/ StaleRemove
    \/ UpdateStep
    \/ CollideStep
    \/ DispatchStep
    \/ DeathCbStep
    \/ RemoveStep
    \/ DrawStep

StaleSpec == InitStale /\ [][NextStale]_vars

----------------------------------------------------------------------------
(* The loop with the pause key and the SIGWINCH handler, on a scene of one *)
(* fish and one seaweed.                                                   *)

(* signal_handler, lines 1875-1884: SIGWINCH sets needs_redraw.  The loop   *)
(* reads the flag only at line 525, so a signal that arrives while          *)
(* animate() runs acts as one that arrives just before the test.            *)
Sigwinch ==
    /\ pc \in {"input", "draw"}
    /\ ~needs_redraw
    /\ needs_redraw' = TRUE
    /\ UNCHANGED <<entities, width, height, paused, now, pc, idx, dead_entities,
                   next_id, log, death_calls, screen>>

PauseScenes(nid, W, H, t) ==
    UNION { { f \o w : w \in CreateSeaweed(nid + Len(f), W, H, t) } :
              f \in CreateFish(nid, NEW_FISH, W, H, t) }

InitPause ==
    /\ \E sz \in Sizes : height = sz[1] /\ width = sz[2]
    /\ entities \in PauseScenes(0, width, height, 0)
    /\ paused = FALSE
    /\ needs_redraw = TRUE
    /\ now = 0
    /\ pc = "input"
    /\ idx = 1
    /\ dead_entities = <<>>
    /\ next_id = Len(entities)
    /\ log = <<>>
    /\ death_calls = [i \in 1..(MaxIds + 1) |-> 0]
    /\ screen = <<>>

NextPause ==
    \/ \E key \in {"none", "p"} : Input(key)
    \/ Sigwinch
    \/ UpdateStep
    \/ CollideStep
    \/ DispatchStep
    \/ DeathCbStep
    \/ RemoveStep
    \/ DrawStep

PauseSpec == InitPause /\ [][NextPause]_vars

----------------------------------------------------------------------------
(* A scene of one object of create_random_object and one fish of           *)
(* create_fish, each where its spawn function puts it.                     *)

RoamScenes(nid, W, H, t) ==
    UNION { { s \o f : f \in CreateFish(nid + Len(s), NEW_FISH, W, H, t) } :
              s \in CreateRandomObject(nid, W, H, t) }

InitRoam ==
    /\ \E sz \in Sizes : height = sz[1] /\ width = sz[2]
    /\ entities \in RoamScenes(0, width, height, 0)
    /\ paused = FALSE
    /\ needs_redraw = TRUE
    /\ now = 0
    /\ pc = "input"
    /\ idx = 1
    /\ dead_entities = <<>>
    /\ next_id = Len(entities)
    /\ log = <<>>
    /\ death_calls = [i \in 1..(MaxIds + 1) |-> 0]
    /\ screen = <<>>

RoamSpec == InitRoam /\ [][NextLoop]_vars

---------------------------------------------------------------------------
(* Scenes for draw_screen: entities that overlap at different depths, that *)
(* lie partly or wholly outside the window, and a window of no width or no *)
(* height.                                                                 *)

DrawSizes == { <<11, 4>>, <<0, 4>>, <<11, 0>> }

(* The water line and a fish across one of its rows. *)
OverlapScenes(nid, W, H, t) ==
    { CreateEnvironment(nid, W, H, t)
      \o << Renumber(<<FishVariant(PlaceAt(f[1], x, y), v)>>, nid + 5) >> :
          f \in CreateFish(nid, NEW_FISH, W, H, t), x \in {-1, 1}, y \in {5, 8},
          v \in {"plain", "far_z"} }

(* A seaweed in or around the window, and a fish that the still teeth eat. *)
AroundScenes(nid, W, H, t) ==
    { << Renumber(<<PlaceAt(w[1], x, y)>>, nid + 1),
         StillTeeth(p, 2, 9),
         Renumber(<<PlaceAt(f[1], 2, 9)>>, nid + 3) >> :
          w \in CreateSeaweed(nid, W, H, t), p \in CreateShark(nid + 1, W, H, t),
          f \in RightFish(nid, W, H, t),
          x \in {-5, -1, 2, 60}, y \in {-7, -1, 9, 60} }

DrawScenes(nid, W, H, t) ==
    OverlapScenes(nid, W, H, t) \cup AroundScenes(nid, W, H, t)
    \cup CreateShark(nid, W, H, t)

InitDraw ==
    /\ \E sz \in DrawSizes : height = sz[1] /\ width = sz[2]
    /\ entities \in DrawScenes(0, width, height, 0)
    /\ paused = FALSE
    /\ needs_redraw = TRUE
    /\ now = 0
    /\ pc = "input"
    /\ idx = 1
    /\ dead_entities = <<>>
    /\ next_id = Len(entities)
    /\ log = <<>>
    /\ death_calls = [i \in 1..(MaxIds + 1) |-> 0]
    /\ screen = <<>>

DrawSpec == InitDraw /\ [][NextLoop]_vars

---------------------------------------------------------------------------
(* Properties *)

HasEv(kind, id) == \E i \in 1..Len(log) : log[i] = <<kind, id>>

HasKind(kind) == \E i \in 1..Len(log) : log[i][1] = kind

(* The phase of animate()/run() a logged call belongs to; kill() calls are *)
(* made in several phases and have none.                                   *)
Rank(kind) ==
    CASE kind \in {"update", "update_cb"} -> 1
      [] kind = "check_collisions" -> 2
      [] kind \in {"handle_collisions", "found_dead", "coll_handler"} -> 3
      [] kind \in {"death_cb", "remove"} -> 4
      [] kind = "draw_screen" -> 5
      [] OTHER -> 0

(* A running tick: animate() got as far as check_collisions. *)
RunningTick == HasEv("check_collisions", 0)

(* C1: in a running tick every update() is over before check_collisions    *)
(* runs, check_collisions is over before any collision handling, every      *)
(* collision handling is over before any death callback or removal, and     *)
(* draw_screen comes after all of them.                                     *)
C1_PhaseOrder ==
    /\ \A i, j \in 1..Len(log) :
          (i < j /\ Rank(log[i][1]) > 0 /\ Rank(log[j][1]) > 0)
              => Rank(log[i][1]) <= Rank(log[j][1])
    /\ pc = "collide" => \A k \in 1..Len(entities) : HasEv("update", entities[k].id)
    /\ pc = "dispatch" => HasEv("check_collisions", 0)
    /\ (pc = "death_cb" /\ idx = 1) =>
          /\ HasEv("check_collisions", 0)
          /\ \A k \in 1..Len(entities) :
                \/ HasEv("handle_collisions", entities[k].id)
                \/ HasEv("found_dead", entities[k].id)
    /\ HasEv("draw_screen", 0) => (pc \in {"input", "quit"} /\ log[Len(log)] = <<"draw_screen", 0>>)

C1_Witness ==
    /\ pc = "input"
    /\ HasKind("update_cb") /\ HasKind("coll_handler") /\ HasKind("death_cb")
    /\ HasKind("remove") /\ HasKind("draw_screen")

(* C2 as stated: whatever is dead when collision dispatch has finished is   *)
(* death-dispatched and removed in the same tick, so at the end of a        *)
(* running tick the only dead entities left in the collection are those a   *)
(* death callback killed.                                                   *)
KilledInDeathPhase(id) ==
    \E i, j \in 1..Len(log) : i < j /\ log[i][1] = "death_cb" /\ log[j] = <<"kill", id>>

C2_AllDeadRemovedInTick ==
    (pc = "draw" /\ RunningTick) =>
        \A k \in 1..Len(entities) :
            ~entities[k].is_alive => KilledInDeathPhase(entities[k].id)

(* C2 amended: the partition is taken while dispatch runs.  An entity that  *)
(* is dead when the dispatch loop visits it has its death callback fired    *)
(* and is removed before the tick ends; a dead entity that is still in the  *)
(* collection at the end of a running tick was alive at its visit and was   *)
(* killed after it, in this tick.                                           *)
KilledAfterVisit(id) ==
    \E i, j \in 1..Len(log) :
        i < j /\ log[i] = <<"handle_collisions", id>> /\ log[j] = <<"kill", id>>

C2_DeadAtVisitRemovedInTick ==
    /\ (pc = "draw" /\ RunningTick) =>
          /\ \A i \in 1..Len(log) : log[i][1] = "found_dead" =>
                /\ HasEv("remove", log[i][2])
                /\ log[i][2] \notin Ids(entities)
          /\ \A k \in 1..Len(entities) :
                ~entities[k].is_alive => KilledAfterVisit(entities[k].id)
    /\ pc = "remove" =>
          (dead_entities[idx].death_cb /= "None"
              => HasEv("death_cb", dead_entities[idx].id))

C2_Witness ==
    /\ pc = "draw"
    /\ \E k \in 1..Len(entities) :
          /\ ~entities[k].is_alive
          /\ HasEv("coll_handler", entities[k].id)
          /\ HasEv("kill", entities[k].id)

(* C3: a death callback is invoked at most once per entity, never for an    *)
(* entity that is alive, and once for every entity with a callback that     *)
(* death dispatch found dead.                                               *)
C3_DeathCbOnce ==
    /\ \A id \in DOMAIN death_calls : death_calls[id] <= 1
    /\ \A k \in 1..Len(entities) :
          death_calls[entities[k].id] > 0 => ~entities[k].is_alive
    /\ pc = "remove" =>
          LET d == dead_entities[idx]
          IN  /\ HasEv("found_dead", d.id)
              /\ d.death_cb /= "None" => death_calls[d.id] = 1
    /\ (pc = "draw" /\ RunningTick) =>
          \A i \in 1..Len(log) : log[i][1] = "found_dead" => HasEv("remove", log[i][2])

C3_Witness ==
    /\ pc = "remove"
    /\ dead_entities[idx].death_cb /= "None"
    /\ death_calls[dead_entities[idx].id] = 1

(* C4: the entity is in the collection before and after its death callback  *)
(* ran, and is out of it once remove_entity has been called for it.         *)
C4_RemovalFollowsCallback ==
    /\ pc \in {"death_cb", "remove"} => dead_entities[idx].id \in Ids(entities)
    /\ \A i \in 1..Len(log) : log[i][1] = "remove" => log[i][2] \notin Ids(entities)
    /\ \A i, j \in 1..Len(log) :
          (log[i][1] = "remove" /\ log[j] = <<"death_cb", log[i][2]>>) => j < i

C4_Witness ==
    /\ \E i \in 1..Len(log) : log[i][1] = "remove" /\ HasEv("death_cb", log[i][2])
    /\ pc = "draw"

BoxOutside(e, W, H) ==
    \/ e.x + Scale * e._width <= 0
    \/ e.x >= Scale * W
    \/ e.y + Scale * e._height <= 0
    \/ e.y >= Scale * H

UpdateCbCalled(l, id) == \E i \in 1..Len(l) : l[i] = <<"update_cb", id>>

(* C6: an update() of a live entity that passes the two expiry checks       *)
(* takes the position step; if the entity has die_offscreen and its box     *)
(* then lies entirely outside the viewport (x + w <= 0, x >= W, y + h <= 0  *)
(* or y >= H) it is dead when update() returns, and if its box still        *)
(* overlaps the viewport, or it has no die_offscreen, update() leaves it    *)
(* alive.  A dead entity stays dead.                                        *)
C6_OffscreenExpiry ==
    [][pc = "update" =>
        LET e  == entities[idx]
            e2 == entities'[idx]
        IN  /\ ~e.is_alive => ~e2.is_alive
            /\ (e.is_alive /\ ~TimeExpired(e, now) /\ ~FrameExpired(e)) =>
                  /\ e2.x = e.x + e.vx /\ e2.y = e.y + e.vy
                  /\ (e.die_offscreen /\ BoxOutside(e2, width, height)) => ~e2.is_alive
                  /\ ~BoxOutside(e2, width, height) => e2.is_alive
                  /\ ~e.die_offscreen => e2.is_alive]_vars

(* An entity just killed on the boundary itself: its box ends exactly at    *)
(* the left or top edge, or starts exactly at the right or bottom edge.     *)
C6_Witness ==
    /\ pc = "collide"
    /\ \E k \in 1..Len(entities) :
          LET e == entities[k]
          IN  /\ ~e.is_alive /\ e.die_offscreen /\ HasEv("kill", e.id)
              /\ ~TimeExpired(e, now) /\ ~FrameExpired(e)
              /\ \/ e.x + Scale * e._width = 0
                 \/ e.y + Scale * e._height = 0
                 \/ e.x = Scale * width
                 \/ e.y = Scale * height

(* C7: every entity starts at frame 0; one update() leaves current_frame    *)
(* where it is or moves it to the next frame modulo the number of frames,   *)
(* never further and never backwards; and for a live, unexpired entity of   *)
(* k > 1 frames with interval I > 0 and multiplier 1, an update() at least  *)
(* I after the last advance moves to the next frame.                        *)
C7_AnimationCycling ==
    [][/\ \A k \in 1..Len(entities') :
             (\A j \in 1..Len(entities) : entities[j].id /= entities'[k].id)
                 => entities'[k].current_frame = 0
       /\ pc = "update" =>
            LET e  == entities[idx]
                e2 == entities'[idx]
                k  == Len(e.shapes)
            IN  /\ e2.current_frame \in {e.current_frame, (e.current_frame + 1) % k}
                /\ ( /\ e.is_alive /\ ~TimeExpired(e, now) /\ ~FrameExpired(e)
                     /\ k > 1 /\ e.anim_speed > 0 /\ e.anim_speed_modifier = <<1, 1>>
                     /\ now - e.last_anim_time >= e.anim_speed )
                   => e2.current_frame = (e.current_frame + 1) % k]_vars

(* A three-frame entity with interval 1 that has gone round once. *)
C7_Witness ==
    \E k \in 1..Len(entities) :
        LET e == entities[k]
        IN  /\ Len(e.shapes) = 3 /\ e.anim_speed = 1
            /\ e._frames_shown = 3 /\ e.current_frame = 0
            /\ HasEv("update", e.id)

(* C8: current_frame of every entity is an index into its frames, and the   *)
(* cached lines, width, height and mask lines are those of that frame.      *)
C8_FrameInRange ==
    \A k \in 1..Len(entities) :
        LET e == entities[k]
            shape_str == e.shapes[e.current_frame + 1]
        IN  /\ 0 <= e.current_frame /\ e.current_frame < Len(e.shapes)
            /\ e._lines = IF shape_str = <<>> THEN <<>> ELSE SplitNL(StripNL(shape_str))
            /\ e._height = Len(e._lines)
            /\ \A i \in 1..Len(e._lines) : Len(e._lines[i]) <= e._width
            /\ (e._lines /= <<>>) => \E i \in 1..Len(e._lines) : Len(e._lines[i]) = e._width
            /\ (e._lines = <<>>) => e._width = 0
            /\ e._color_lines = FrameColorLines(shape_str, e.color_maps[e.current_frame + 1])

(* An entity showing a frame whose size differs from that of frame 0. *)
C8_Witness ==
    \E k \in 1..Len(entities) :
        LET e == entities[k]
        IN  /\ e.current_frame > 0 /\ e._frames_shown > 0
            /\ <<e._width, e._height>> /=
                   <<MaxLen(FrameLines(e.shapes[1])), Len(FrameLines(e.shapes[1]))>>

(* C9: update() of a dead entity changes nothing: the entity, and with it   *)
(* its position, frame, frames-shown count, last-animation time and         *)
(* collision list, is as before, no entity is spawned and no update         *)
(* callback runs.                                                           *)
C9_DeadUpdateNoop ==
    [][(pc = "update" /\ ~entities[idx].is_alive) =>
          /\ entities' = entities
          /\ next_id' = next_id
          /\ ~UpdateCbCalled(log', entities[idx].id)
          /\ log' = Append(log, <<"update", entities[idx].id>>)]_vars

(* A dead, moving entity that has an update callback has just been updated. *)
C9_Witness ==
    /\ pc \in {"update", "collide"}
    /\ \E k \in 1..Len(entities) :
          LET e == entities[k]
          IN  /\ ~e.is_alive /\ e.update_cb /= "None" /\ e.vx /= 0
              /\ log /= <<>> /\ log[Len(log)] = <<"update", e.id>>
              /\ ~HasEv("kill", e.id)

(* C10: update() of a live entity checks time expiry and frame-count        *)
(* expiry first and returns at once if either kills: the entity is then     *)
(* exactly as before but dead, not advanced and not moved.  Otherwise the   *)
(* animation advance and the position step are both taken before the        *)
(* offscreen test, which decides on the moved box.  The update callback     *)
(* runs exactly when the entity has one and is alive after all of that,     *)
(* and a call that kills spawns nothing.                                    *)
C10_CheckOrder ==
    [][(pc = "update" /\ entities[idx].is_alive) =>
        LET e  == entities[idx]
            e2 == entities'[idx]
            expired == TimeExpired(e, now) \/ FrameExpired(e)
        IN  /\ expired => e2 = Kill(e)
            /\ ~expired =>
                  /\ e2.current_frame = IF AnimDue(e, now)
                                        THEN (e.current_frame + 1) % Len(e.shapes)
                                        ELSE e.current_frame
                  /\ e2.x = e.x + e.vx /\ e2.y = e.y + e.vy
                  /\ e2.is_alive = ~(e.die_offscreen /\ BoxOutside(e2, width, height))
            /\ UpdateCbCalled(log', e.id) = (e2.is_alive /\ e.update_cb /= "None")
            /\ ~e2.is_alive => (next_id' = next_id /\ Len(entities') = Len(entities))]_vars

(* A moving, animated entity with an update callback was killed by expiry   *)
(* in an update() in which its animation was due.                           *)
C10_Witness ==
    /\ pc = "collide"
    /\ \E k \in 1..Len(entities) :
          LET e == entities[k]
          IN  /\ ~e.is_alive /\ HasEv("kill", e.id) /\ ~HasEv("update_cb", e.id)
              /\ TimeExpired(e, now) \/ FrameExpired(e)
              /\ e.update_cb /= "None" /\ (e.vx /= 0 \/ e.vy /= 0)
              /\ Len(e.shapes) > 1 /\ e.anim_speed > 0
              /\ now - e.last_anim_time >= e.anim_speed

(* C11: an update() of a live entity that neither expiry check kills adds   *)
(* (vx, vy) to (x, y), once, whatever time has passed since the last        *)
(* update; any other update() leaves (x, y) alone; no update() moves        *)
(* another entity, and no step of the loop changes the z or the velocity    *)
(* of an entity.                                                            *)
C11_PositionStep ==
    [][ /\ \A i \in 1..Len(entities), j \in 1..Len(entities') :
              entities[i].id = entities'[j].id =>
                  /\ entities'[j].z = entities[i].z
                  /\ entities'[j].vx = entities[i].vx
                  /\ entities'[j].vy = entities[i].vy
        /\ pc = "update" =>
              LET e  == entities[idx]
                  e2 == entities'[idx]
                  steps == e.is_alive /\ ~TimeExpired(e, now) /\ ~FrameExpired(e)
              IN  /\ e2.x = IF steps THEN e.x + e.vx ELSE e.x
                  /\ e2.y = IF steps THEN e.y + e.vy ELSE e.y
                  /\ \A k \in 1..Len(entities) :
                        k /= idx => (entities'[k].x = entities[k].x
                                     /\ entities'[k].y = entities[k].y) ]_vars

(* An entity with a z velocity, updated at time 0 and at time 2, has made   *)
(* two steps of vx and is at the depth it was built with.                   *)
C11_Witness ==
    /\ pc = "collide" /\ now = 2
    /\ \E k \in 1..Len(entities) :
          LET e == entities[k]
          IN  /\ e.is_alive /\ e.vz /= 0 /\ e.vx /= 0
              /\ e.x = 2 * e.vx /\ e.z = 3
              /\ HasEv("update", e.id)

(* The place in ents of the probe check_collisions uses: the first entity   *)
(* of type teeth that is physical and alive; 0 if there is none.            *)
ProbeIndex(ents) ==
    LET ks == {k \in 1..Len(ents) :
                 ents[k].type = "teeth" /\ ents[k].physical /\ ents[k].is_alive}
    IN  IF ks = {} THEN 0 ELSE CHOOSE k \in ks : \A m \in ks : k <= m

(* The integer point of p lies in the integer box of b. *)
PointInBox(p, b) ==
    /\ PyInt(b.x) <= PyInt(p.x) /\ PyInt(p.x) < PyInt(b.x) + b._width
    /\ PyInt(b.y) <= PyInt(p.y) /\ PyInt(p.y) < PyInt(b.y) + b._height

Count(list, id) == Cardinality({k \in 1..Len(list) : list[k] = id})

(* C12: check_collisions records the probe in the collision list of a live  *)
(* physical fish (one that has a collision handler, as every fish of        *)
(* create_fish_entity has) if and only if tx <= px < tx + tw and            *)
(* ty <= py < ty + th; a fish that fails the test gets no entry and gives   *)
(* none to the probe; z plays no part.                                      *)
C12_HitTest ==
    [][(pc = "collide" /\ ProbeIndex(entities) /= 0) =>
        LET ti == ProbeIndex(entities)
            teeth == entities[ti]
        IN  \A k \in 1..Len(entities) :
              LET f  == entities[k]
                  f2 == entities'[k]
              IN  (f.type = "fish" /\ f.physical /\ f.is_alive) =>
                    /\ (PointInBox(teeth, f) /\ f.coll_handler /= "None")
                          => f2.collisions = Append(f.collisions, teeth.id)
                    /\ ~PointInBox(teeth, f) =>
                          /\ f2.collisions = f.collisions
                          /\ Count(entities'[ti].collisions, f.id) = 0]_vars

(* A fish far behind the probe in depth has been hit by it. *)
C12_Witness ==
    /\ pc = "dispatch" /\ idx = 1
    /\ \E k \in 1..Len(entities) :
          LET f == entities[k]
          IN  /\ f.type = "fish" /\ f.z = DEPTH.fish_end
              /\ ProbeIndex(entities) /= 0
              /\ entities[ProbeIndex(entities)].z /= f.z
              /\ f.collisions = <<entities[ProbeIndex(entities)].id>>

(* Collision dispatch of the tick is over. *)
DispatchOver == RunningTick /\ pc \in {"death_cb", "remove", "draw"}

(* check_collisions has just run. *)
JustCollided == pc = "dispatch" /\ idx = 1 /\ log[Len(log)] = <<"check_collisions", 0>>

(* C13 as stated: when the probe hits a live physical fish, each of the two *)
(* has the other in its collision list exactly once after check_collisions, *)
(* whether or not it has a collision handler.                               *)
C13_SymmetricRecording ==
    (JustCollided /\ ProbeIndex(entities) /= 0) =>
        LET teeth == entities[ProbeIndex(entities)]
        IN  \A k \in 1..Len(entities) :
              LET f == entities[k]
              IN  (f.type = "fish" /\ f.physical /\ f.is_alive /\ PointInBox(teeth, f)) =>
                    /\ Count(f.collisions, teeth.id) = 1
                    /\ Count(teeth.collisions, f.id) = 1

(* C13 amended: when the probe hits a live physical fish, the fish has the  *)
(* probe in its list exactly once if the fish has a collision handler and   *)
(* has an empty list if it has none; likewise the probe has the fish once   *)
(* if the probe has a handler and not at all if it has none.  After         *)
(* dispatch the list of every entity in the collection is empty.            *)
C13_RecordingByHandler ==
    /\ (JustCollided /\ ProbeIndex(entities) /= 0) =>
          LET teeth == entities[ProbeIndex(entities)]
          IN  \A k \in 1..Len(entities) :
                LET f == entities[k]
                IN  (f.type = "fish" /\ f.physical /\ f.is_alive /\ PointInBox(teeth, f)) =>
                      /\ Count(f.collisions, teeth.id) =
                             IF f.coll_handler /= "None" THEN 1 ELSE 0
                      /\ Len(f.collisions) = Count(f.collisions, teeth.id)
                      /\ Count(teeth.collisions, f.id) =
                             IF teeth.coll_handler /= "None" THEN 1 ELSE 0
    /\ DispatchOver => \A k \in 1..Len(entities) : entities[k].collisions = <<>>

(* Dispatch is over in a tick in which the probe, which has no handler,     *)
(* sits inside the box of a live physical fish that has none either.        *)
C13_Witness ==
    /\ DispatchOver
    /\ ProbeIndex(entities) /= 0
    /\ entities[ProbeIndex(entities)].coll_handler = "None"
    /\ \E k \in 1..Len(entities) :
          LET f == entities[k]
          IN  /\ f.type = "fish" /\ f.physical /\ f.coll_handler = "None"
              /\ f.is_alive /\ PointInBox(entities[ProbeIndex(entities)], f)

(* C14: check_collisions appends nothing to the list of an entity that is  *)
(* dead or not physical, and appends such an entity to no list.            *)
C14_OnlyLivePhysical ==
    [][pc = "collide" =>
        \A k \in 1..Len(entities) :
          LET e == entities[k]
          IN  (~e.is_alive \/ ~e.physical) =>
                /\ entities'[k].collisions = e.collisions
                /\ \A j \in 1..Len(entities) :
                      Count(entities'[j].collisions, e.id)
                          = Count(entities[j].collisions, e.id)]_vars

(* check_collisions ran with the live probe inside the box of a physical   *)
(* fish that was killed in the update pass of the same tick.               *)
C14_Witness ==
    /\ JustCollided
    /\ ProbeIndex(entities) /= 0
    /\ \E k \in 1..Len(entities) :
          LET f == entities[k]
          IN  /\ f.type = "fish" /\ f.physical /\ ~f.is_alive
              /\ f.coll_handler /= "None"
              /\ HasEv("kill", f.id)
              /\ PointInBox(entities[ProbeIndex(entities)], f)

(* C15: a bubble whose integer position lies in the box of a live water    *)
(* line after the update pass has been killed by the end of that tick.     *)
C15_BubblePops ==
    DispatchOver =>
        \A k \in 1..Len(entities), m \in 1..Len(entities) :
          LET b == entities[k]
              w == entities[m]
          IN  (/\ b.type = "bubble" /\ b.physical
               /\ w.type = "waterline" /\ w.physical /\ w.is_alive
               /\ PointInBox(b, w)) => ~b.is_alive

(* The number of calls of the collision handler of the entity in this tick. *)
HandlerCalls(l, id) == Cardinality({i \in 1..Len(l) : l[i] = <<"coll_handler", id>>})

(* C16: when the dispatch loop visits an entity, its collision handler is   *)
(* called once if the entity is alive, has a handler and has a collision    *)
(* recorded in this tick, and is not called otherwise; no handler is called *)
(* twice in a tick; once dispatch is over the collision list of every live  *)
(* entity is empty.                                                         *)
C16_HandlerOncePerTick ==
    [][/\ pc = "dispatch" =>
            LET e == entities[idx]
            IN  HandlerCalls(log', e.id) =
                    IF e.is_alive /\ e.coll_handler /= "None" /\ e.collisions /= <<>>
                    THEN 1 ELSE 0
       /\ \A id \in 1..MaxIds : HandlerCalls(log', id) <= 1
       /\ DispatchOver' =>
            \A k \in 1..Len(entities') :
               entities'[k].is_alive => entities'[k].collisions = <<>>]_vars

(* Dispatch is over in a tick in which one handler was called and a live    *)
(* entity that has a handler, but had no collision, was passed over.        *)
C16_Witness ==
    /\ DispatchOver
    /\ \E k \in 1..Len(entities) : HasEv("coll_handler", entities[k].id)
    /\ \E k \in 1..Len(entities) :
          /\ entities[k].is_alive /\ entities[k].coll_handler /= "None"
          /\ HasEv("handle_collisions", entities[k].id)
          /\ ~HasEv("coll_handler", entities[k].id)

(* The strike point of a shark: its position plus the offset at which       *)
(* create_shark puts the teeth.                                             *)
StrikePoint(shark) ==
    [x |-> shark.x + Scale * teeth_offset_x(IF shark.vx > 0 THEN 0 ELSE 1),
     y |-> shark.y + Scale * teeth_offset_y]

(* C17: when dispatch is over, a fish of height at most 5 whose box holds   *)
(* the strike point of a live shark has been killed.                        *)
C17_SharkEatsFish ==
    DispatchOver =>
        \A k \in 1..Len(entities), m \in 1..Len(entities) :
          LET s == entities[k]
              f == entities[m]
          IN  (/\ s.type = "shark" /\ s.is_alive
               /\ f.type = "fish" /\ f.physical /\ f._height <= 5
               /\ PointInBox(StrikePoint(s), f)) => ~f.is_alive

(* The glyph an entity has at a cell, "" when its shape does not reach it. *)
GlyphAt(e, row, col) ==
    LET i == row - PyInt(e.y) + 1
        j == col - PyInt(e.x) + 1
    IN  IF i \in 1..Len(e._lines) /\ j \in 1..Len(e._lines[i]) THEN e._lines[i][j] ELSE ""

(* The entity has a glyph at the cell and it is not a transparent one. *)
Opaque(e, row, col) ==
    LET g == GlyphAt(e, row, col)
    IN  g /= "" /\ g /= e.transparent_char /\ ~(e.auto_trans /\ g = " ")

(* The place in the call sequence of the last write to the cell, 0 if none. *)
LastWrite(scr, row, col) ==
    LET ks == {k \in 1..Len(scr) : scr[k].row = row /\ scr[k].col = col}
    IN  IF ks = {} THEN 0 ELSE CHOOSE k \in ks : \A m \in ks : m <= k

(* C18: when live entities have a non-transparent glyph at the same window  *)
(* cell, draw_screen leaves in the cell a glyph of one whose z is the        *)
(* smallest among them.                                                      *)
C18_DepthOcclusion ==
    [][(pc = "draw" /\ Draws) =>
        \A row \in 0..(height - 1), col \in 0..(width - 1) :
          \A a \in 1..Len(entities) :
            (entities[a].is_alive /\ Opaque(entities[a], row, col)) =>
              LET k == LastWrite(screen', row, col)
                  w == IF k = 0 THEN 0 ELSE IndexOf(entities, screen'[k].id)
              IN  /\ k /= 0 /\ w /= 0
                  /\ entities[w].z <= entities[a].z
                  /\ screen'[k].char = GlyphAt(entities[w], row, col)]_vars

(* draw_screen has just run. *)
JustDrew == pc = "input" /\ log /= <<>> /\ log[Len(log)] = <<"draw_screen", 0>>

(* A drawn screen on which an entity covers a cell of another that comes    *)
(* after it in the entity list and lies deeper.                             *)
C18_Witness ==
    /\ JustDrew
    /\ \E a \in 1..Len(entities), b \in 1..Len(entities) :
       \E row \in 0..(height - 1), col \in 0..(width - 1) :
          /\ a < b
          /\ entities[a].is_alive /\ entities[b].is_alive
          /\ entities[a].z < entities[b].z
          /\ Opaque(entities[a], row, col) /\ Opaque(entities[b], row, col)
          /\ screen[LastWrite(screen, row, col)].id = entities[a].id

(* The entity has a glyph at the cell and it is a transparent one. *)
Transparent(e, row, col) ==
    LET g == GlyphAt(e, row, col)
    IN  g /= "" /\ (g = e.transparent_char \/ (e.auto_trans /\ g = " "))

(* C19: draw_screen makes no write for a cell of an entity whose glyph is   *)
(* the entity's transparent glyph, or a space while auto_trans is set.      *)
C19_TransparentNotWritten ==
    [][(pc = "draw" /\ Draws) =>
        /\ \A k \in 1..Len(screen') :
             LET e == entities[IndexOf(entities, screen'[k].id)]
             IN  /\ screen'[k].char /= e.transparent_char
                 /\ ~(e.auto_trans /\ screen'[k].char = " ")
        /\ \A a \in 1..Len(entities) :
           \A row \in 0..(height - 1), col \in 0..(width - 1) :
             Transparent(entities[a], row, col) =>
               \A k \in 1..Len(screen') :
                 ~(screen'[k].id = entities[a].id
                   /\ screen'[k].row = row /\ screen'[k].col = col)]_vars

(* A drawn screen on which a transparent cell of a live entity lies over an *)
(* opaque cell of a deeper one, whose glyph the cell holds.                 *)
C19_Witness ==
    /\ JustDrew
    /\ \E a \in 1..Len(entities), b \in 1..Len(entities) :
       \E row \in 0..(height - 1), col \in 0..(width - 1) :
          /\ entities[a].is_alive /\ entities[b].is_alive
          /\ entities[a].z < entities[b].z
          /\ Transparent(entities[a], row, col) /\ Opaque(entities[b], row, col)
          /\ LastWrite(screen, row, col) /= 0
          /\ screen[LastWrite(screen, row, col)].id = entities[b].id
          /\ screen[LastWrite(screen, row, col)].char = GlyphAt(entities[b], row, col)

(* C20: every write of draw_screen has its row in [0, height) and its       *)
(* column in [0, width), wherever the entities are; no write is made for an *)
(* entity that is not alive; in a window of width 0 or height 0 no write is *)
(* made at all.                                                             *)
C20_ClipAndSkipDead ==
    [][(pc = "draw" /\ Draws) =>
        /\ \A k \in 1..Len(screen') :
             /\ 0 <= screen'[k].row /\ screen'[k].row < height
             /\ 0 <= screen'[k].col /\ screen'[k].col < width
        /\ \A a \in 1..Len(entities) :
             ~entities[a].is_alive =>
               \A k \in 1..Len(screen') : screen'[k].id /= entities[a].id
        /\ (width = 0 \/ height = 0) => screen' = <<>>]_vars

(* A drawn screen with a dead entity whose shape lies over the window, and  *)
(* a live one that is drawn in part, the rest of it being left of or above  *)
(* the window.                                                              *)
C20_Witness ==
    /\ JustDrew
    /\ \E a \in 1..Len(entities) :
          /\ ~entities[a].is_alive
          /\ \E row \in 0..(height - 1), col \in 0..(width - 1) :
                Opaque(entities[a], row, col)
    /\ \E b \in 1..Len(entities) :
          /\ entities[b].is_alive
          /\ (PyInt(entities[b].x) < 0 \/ PyInt(entities[b].y) < 0)
          /\ \E k \in 1..Len(screen) : screen[k].id = entities[b].id

(* The number of newlines a string starts with. *)
RECURSIVE LeadingNL(_)
LeadingNL(s) == IF s /= <<>> /\ Head(s) = NL THEN 1 + LeadingNL(Tail(s)) ELSE 0

(* The rows of the mask block of the current frame as it was given to the   *)
(* constructor, counted from the row the shape block starts at.             *)
SuppliedMaskRows(e) ==
    LET shape_str == e.shapes[e.current_frame + 1]
        mask == e.color_maps[e.current_frame + 1]
        n == LeadingNL(shape_str)
    IN  IF mask = <<>> THEN <<>>
        ELSE SplitNL(SubSeq(mask, (IF n <= Len(mask) THEN n ELSE Len(mask)) + 1, Len(mask)))

(* C21: every write of draw_screen for row i, column j of an entity's frame *)
(* carries the attribute named by the character at row i, column j of the   *)
(* mask block as given to the constructor when there is one and it is       *)
(* neither a space nor '?', and the default attribute of the entity         *)
(* otherwise.                                                               *)
C21_AttributeFromMask ==
    [][(pc = "draw" /\ Draws) =>
        \A k \in 1..Len(screen') :
          LET e == entities[IndexOf(entities, screen'[k].id)]
              i == screen'[k].row - PyInt(e.y) + 1
              j == screen'[k].col - PyInt(e.x) + 1
              rows == SuppliedMaskRows(e)
              named == i <= Len(rows) /\ j <= Len(rows[i])
                       /\ rows[i][j] /= " " /\ rows[i][j] /= "?"
          IN  screen'[k].attr = IF named THEN rows[i][j] ELSE e.default_color_char]_vars

(* A running tick is over: its removals are done. *)
EndOfTick == RunningTick /\ pc \in {"draw", "input"}

SeaweedPlaces(ents) == {k \in 1..Len(ents) : ents[k].type = "seaweed"}

(* C22: in a scene that starts with SeaweedN seaweed, at the end of every   *)
(* running tick there are SeaweedN seaweed entities, all alive, and a       *)
(* seaweed that was killed in the tick is in the scene no more.             *)
C22_SeaweedRespawn ==
    EndOfTick =>
        /\ Cardinality(SeaweedPlaces(entities)) = SeaweedN
        /\ \A k \in SeaweedPlaces(entities) : entities[k].is_alive
        /\ \A id \in 1..MaxIds : HasEv("kill", id) => id \notin Ids(entities)

(* The end of a tick in which the update of a seaweed killed it, its death  *)
(* callback ran, and a seaweed made in this tick is in the scene.           *)
C22_Witness ==
    /\ EndOfTick
    /\ \E id \in 1..MaxIds :
          /\ HasEv("update", id) /\ HasEv("kill", id) /\ HasEv("death_cb", id)
          /\ HasEv("remove", id)
    /\ \E k \in SeaweedPlaces(entities) :
          entities[k].is_alive /\ ~HasEv("update", entities[k].id)

(* The fish of the scene, the fish made in this tick (a fish the update     *)
(* pass of the tick did not visit), the fish a kill() of this tick killed,  *)
(* and the fish the dispatch loop of this tick found dead.                  *)
FishPlaces(ents) == {k \in 1..Len(ents) : ents[k].type = "fish"}

LiveFish(ents) == {k \in FishPlaces(ents) : ents[k].is_alive}

NewFish(ents) == {k \in FishPlaces(ents) : ~HasEv("update", ents[k].id)}

FishFoundDead(dead) == {k \in 1..Len(dead) : dead[k].death_cb = "create_fish"}

FishKilledInTick ==
    Cardinality({k \in FishPlaces(entities) :
                    ~entities[k].is_alive /\ HasEv("kill", entities[k].id)})
    + Cardinality({k \in FishFoundDead(dead_entities) :
                    HasEv("kill", dead_entities[k].id)})

(* The live fish before the tick: those of now, less the ones made in the   *)
(* tick, plus the ones killed in it.                                        *)
LiveFishBefore ==
    Cardinality(LiveFish(entities)) - Cardinality(NewFish(entities)) + FishKilledInTick

(* C23 as stated: at the end of every running tick the live fish are as     *)
(* many as before the tick, however a fish died in it.                      *)
C23_LiveFishConstant ==
    EndOfTick => Cardinality(LiveFish(entities)) = LiveFishBefore

(* C23 amended: a fish is replaced in the tick whose dispatch loop finds it *)
(* dead.  At the end of every running tick one new live fish is in the      *)
(* scene for each fish found dead; a fish killed in the update pass is      *)
(* among them, a fish killed by its collision handler is not: it is still   *)
(* in the scene, dead, with its kill() after its visit by the dispatch      *)
(* loop, and no fish of this tick stands for it.                            *)
C23_FishReplacedWhenFoundDead ==
    EndOfTick =>
        /\ Cardinality(NewFish(entities)) = Cardinality(FishFoundDead(dead_entities))
        /\ \A k \in NewFish(entities) : entities[k].is_alive
        /\ \A k \in FishFoundDead(dead_entities) :
              dead_entities[k].id \notin Ids(entities)
        /\ \A k \in FishPlaces(entities) : ~entities[k].is_alive =>
              /\ KilledAfterVisit(entities[k].id)
              /\ HasEv("coll_handler", entities[k].id)
              /\ Cardinality(LiveFish(entities)) < LiveFishBefore + Cardinality(NewFish(entities))

(* The end of the tick after the one in which a collision handler killed a  *)
(* fish: the fish was found dead without a kill() in this tick, and a fish  *)
(* made in this tick is in the scene.                                       *)
C23_Witness ==
    /\ EndOfTick
    /\ \E k \in FishFoundDead(dead_entities) :
          /\ ~HasEv("kill", dead_entities[k].id)
          /\ HasEv("remove", dead_entities[k].id)
    /\ NewFish(entities) /= {}

(* The roaming special objects: the types the functions of                  *)
(* RANDOM_OBJECT_POOL give their entities.                                  *)
SpecialTypes == {"ship", "whale", "monster", "big_fish", "shark"}

SpecialPlaces(ents) == {k \in 1..Len(ents) : ents[k].type \in SpecialTypes}

NewSpecials(ents) == {k \in SpecialPlaces(ents) : ~HasEv("update", ents[k].id)}

SpecialsFoundDead(dead) ==
    {k \in 1..Len(dead) : dead[k].death_cb \in {"create_random_object", "shark_death"}}

(* C24: in a scene that starts with one special object, between ticks and   *)
(* at the end of every running tick there is exactly one special object in  *)
(* the scene, and it is alive; a special object that was killed in the tick *)
(* had its death callback run once and is in the scene no more, and one     *)
(* special object made in this tick stands for it.                          *)
C24_OneSpecialObject ==
    /\ (pc = "input" \/ EndOfTick) =>
          /\ Cardinality(SpecialPlaces(entities)) = 1
          /\ \A k \in SpecialPlaces(entities) : entities[k].is_alive
    /\ EndOfTick =>
          /\ Cardinality(NewSpecials(entities))
                = Cardinality(SpecialsFoundDead(dead_entities))
          /\ \A k \in SpecialsFoundDead(dead_entities) :
                /\ HasEv("kill", dead_entities[k].id)
                /\ HasEv("death_cb", dead_entities[k].id)
                /\ death_calls[dead_entities[k].id] = 1
                /\ dead_entities[k].id \notin Ids(entities)

(* The end of a tick in which a shark left the window: shark_death ran and  *)
(* a special object made in this tick is in the scene.                      *)
C24_Witness ==
    /\ EndOfTick
    /\ \E k \in SpecialsFoundDead(dead_entities) :
          /\ dead_entities[k].death_cb = "shark_death"
          /\ HasEv("remove", dead_entities[k].id)
    /\ NewSpecials(entities) /= {}

(* C25: a step of the loop that starts and ends paused leaves the entity    *)
(* collection as it is (the entities, their positions, frame indices,       *)
(* frames shown and alive flags) and calls no update, no collision test, no *)
(* collision handler and no death callback; a composite it draws, once the  *)
(* first iteration has drawn one, is the composite of before.               *)
C25_PauseIdempotent ==
    [][(paused /\ paused') =>
          /\ entities' = entities
          /\ dead_entities' = dead_entities
          /\ \A i \in 1..Len(log') : log'[i] = <<"draw_screen", 0>>
          /\ (pc = "draw" /\ Draws /\ now > 0) => screen' = screen]_vars

(* A paused iteration, not the first of the run, has drawn the scene (the   *)
(* signal handler had set needs_redraw), and a fish is on the screen.       *)
C25_Witness ==
    /\ paused /\ pc = "input" /\ now > MaxDt
    /\ HasEv("draw_screen", 0)
    /\ \E k \in 1..Len(screen) :
          entities[IndexOf(entities, screen[k].id)].type = "fish"

TypePlaces(ents, type) == {k \in 1..Len(ents) : ents[k].type = type}

(* The scene the initial population makes in a window of H rows and W       *)
(* columns: the water line rows across the window, the castle in the lower  *)
(* right corner, the seaweed and the fish the window has room for, and one  *)
(* special object, all alive.                                               *)
IsPopulation(ents, W, H) ==
    /\ Cardinality(TypePlaces(ents, "waterline")) = Len(WaterLineSegmentShapes)
    /\ \A k \in TypePlaces(ents, "waterline") :
          ents[k]._width = W /\ ents[k].x = 0
    /\ Cardinality({k \in 1..Len(ents) : ents[k].shapes = <<CastleImage>>}) = 1
    /\ \A k \in 1..Len(ents) : ents[k].shapes = <<CastleImage>> =>
          /\ ents[k].x = Scale * Max2(0, W - RawWidth(CastleImage) - 1)
          /\ ents[k].y = Scale * Max2(0, H - CountNL(CastleImage) - 1)
    /\ Cardinality(TypePlaces(ents, "seaweed")) = seaweed_count(W)
    /\ \A k \in TypePlaces(ents, "seaweed") :
          /\ Scale <= ents[k].x /\ ents[k].x <= Scale * Max2(1, W - 3)
          /\ PyInt(ents[k].y) + ents[k]._height < Max2(H, ents[k]._height + 1)
    /\ Cardinality(TypePlaces(ents, "fish")) = fish_count(W, H)
    /\ \A k \in TypePlaces(ents, "fish") :
          ents[k].x = IF ents[k].vx > 0 THEN -Scale * ents[k]._width ELSE Scale * (W - 1)
    /\ Cardinality(SpecialPlaces(ents)) = 1
    /\ \A k \in SpecialPlaces(ents) :
          ents[k].x = IF ents[k].vx < 0
                      THEN Scale * W + (IF ents[k].type = "whale" THEN Scale * WhaleMargin ELSE 0)
                      ELSE -Scale * ents[k]._width
                           - (IF ents[k].type = "whale" THEN Scale * WhaleMargin ELSE 0)
    /\ \A k \in 1..Len(ents) :
          /\ ents[k].is_alive
          /\ ents[k].type \in {"waterline", "", "seaweed", "fish", "teeth"} \cup SpecialTypes
    /\ Cardinality(TypePlaces(ents, "teeth")) = Cardinality(TypePlaces(ents, "shark"))
    /\ Cardinality(TypePlaces(ents, "")) = 1

(* C26: a KEY_RESIZE that finds the window at a new size, whether the loop  *)
(* is running or paused, empties the entity collection and takes the new    *)
(* size; the population that follows at once is the initial population for  *)
(* the new size, and the loop is not paused after it.                       *)
C26_ResizeRepopulates ==
    [][/\ (pc = "input" /\ <<height', width'>> /= <<height, width>>) =>
            /\ entities' = <<>>
            /\ pc' = "populate"
       /\ pc = "populate" =>
            /\ IsPopulation(entities', width, height)
            /\ ~paused'
            /\ needs_redraw'
            /\ UNCHANGED <<width, height>>
            /\ pc' /= "populate"]_vars

(* The window was resized while the loop was paused: the collection is      *)
(* empty, the size is new, and the population is about to be made.          *)
C26_Witness ==
    /\ pc = "populate" /\ paused
    /\ HasEv("update_term_size", 0)
    /\ <<height, width>> \notin Sizes
    /\ entities = <<>>

(* C27 as stated: the loop starts running; only the key 'p', which flips    *)
(* paused, and the key 'r', after which the loop is running, change paused; *)
(* the loop ends only on the key 'q'.                                       *)
C27_OnlyPAndRChangeState ==
    [][/\ pc = "start" => ~paused
       /\ paused' /= paused =>
             \/ Input("p")
             \/ pc = "populate" /\ ~HasEv("update_term_size", 0)
       /\ Input("p") => paused' = ~paused
       /\ (pc = "populate" /\ ~HasEv("update_term_size", 0)) => ~paused'
       /\ pc' = "quit" => Input("q")]_vars

(* C27 amended: paused is the whole state of the driver and starts FALSE.   *)
(* The key 'p' flips it; the key 'r', and a KEY_RESIZE that finds the       *)
(* window at a new size, rebuild the scene and leave it FALSE; no key, any  *)
(* other key and a KEY_RESIZE at the same size leave it as it is, and so    *)
(* does every step of animate() and draw_screen().  The loop ends only on   *)
(* the key 'q'.                                                             *)
C27_DriverStates ==
    [][/\ pc = "start" => ~paused
       /\ paused' /= paused => (Input("p") \/ pc = "populate")
       /\ Input("p") => paused' = ~paused
       /\ pc = "populate" => ~paused'
       /\ (Restart \/ \E sz \in RunSizes : sz /= <<height, width>> /\ Resize(sz)) =>
             pc' = "populate"
       /\ pc' = "populate" =>
             (Restart \/ \E sz \in RunSizes : sz /= <<height, width>> /\ Resize(sz))
       /\ pc' = "quit" => Input("q")]_vars

(* A KEY_RESIZE came in a later iteration, while the loop was paused, and   *)
(* found a new size: the scene is about to be rebuilt.                      *)
C27_Witness ==
    /\ pc = "populate" /\ paused /\ now > MaxTime - RunTicks
    /\ HasEv("update_term_size", 0)

(* C28: remove_entity on an object that is not in the collection leaves the *)
(* collection and needs_redraw, and everything else of the scene, as they   *)
(* are; the kill() of shark_death on teeth that are no longer in the        *)
(* collection changes no entity of the collection and kills none: the       *)
(* callback only adds the next special object.                              *)
C28_StaleReferenceNoop ==
    [][/\ \A id \in 1..MaxIds :
             (log' = Append(log, <<"remove_entity", id>>) /\ id \notin Ids(entities)) =>
                 UNCHANGED <<entities, needs_redraw, dead_entities, next_id,
                             death_calls, screen, pc>>
       /\ (pc = "death_cb" /\ dead_entities[idx].death_cb = "shark_death"
           /\ dead_entities[idx].death_cb_args[1] \notin Ids(entities)) =>
              /\ SubSeq(entities', 1, Len(entities)) = entities
              /\ log' = Append(log, <<"death_cb", dead_entities[idx].id>>)
              /\ \A k \in (Len(entities) + 1)..Len(entities') :
                    entities'[k].is_alive /\ entities'[k].id > next_id]_vars

(* After the tick in which shark_death ran for a shark whose teeth had left *)
(* the collection, remove_entity was called on those teeth.                 *)
C28_Witness ==
    /\ pc = "input"
    /\ \E k \in 1..Len(dead_entities) :
          /\ dead_entities[k].death_cb = "shark_death"
          /\ HasEv("death_cb", dead_entities[k].id)
          /\ dead_entities[k].death_cb_args[1] \notin Ids(entities)
          /\ HasEv("remove_entity", dead_entities[k].death_cb_args[1])
          /\ ~HasEv("remove", dead_entities[k].death_cb_args[1])

(* C29: between ticks, the teeth a live shark was created with are in the   *)
(* collection and alive, at the shark's position plus the offset they were  *)
(* spawned with.                                                            *)
C29_TeethFollowShark ==
    pc \in {"input", "draw"} =>
        \A k \in TypePlaces(entities, "shark") :
            entities[k].is_alive =>
                LET shark == entities[k]
                    t == IndexOf(entities, shark.death_cb_args[1])
                    dir == IF shark.vx > 0 THEN 0 ELSE 1
                IN  /\ t /= 0
                    /\ entities[t].is_alive
                    /\ entities[t].x = shark.x + Scale * teeth_offset_x(dir)
                    /\ entities[t].y = shark.y + Scale * teeth_offset_y

(* The roaming objects and the x their spawn functions start them at: just  *)
(* left of the window when they move right, at its right edge when they     *)
(* move left (a fish one column inside it, a whale WhaleMargin columns      *)
(* further out).  They move at every update, so an object at its spawn x    *)
(* has not been updated yet.                                               *)
RoamingTypes == SpecialTypes \cup {"fish"}

SpawnX(e, W) ==
    LET margin == IF e.type = "whale" THEN Scale * WhaleMargin ELSE 0
    IN  IF e.vx > 0 THEN -Scale * e._width - margin
        ELSE IF e.type = "fish" THEN Scale * (W - 1)
        ELSE Scale * W + margin

(* C30: the first update of a roaming object leaves it alive, and a roaming *)
(* object that its update kills has crossed the window: it is at or beyond  *)
(* the edge it was moving to.                                               *)
C30_RoamersCrossTheWindow ==
    [][(pc = "update" /\ entities[idx].is_alive
        /\ entities[idx].type \in RoamingTypes) =>
          LET e == entities[idx]
              after == entities'[idx]
          IN  /\ e.x = SpawnX(e, width) => after.is_alive
              /\ ~after.is_alive =>
                    IF e.vx > 0 THEN after.x >= Scale * width
                    ELSE after.x + Scale * after._width <= 0]_vars

LiveTeeth(ents) == {k \in TypePlaces(ents, "teeth") : ents[k].is_alive}

(* C31: at every point of the run at most one live teeth entity is in the   *)
(* collection, so the first live teeth entity that check_collisions takes   *)
(* is the only one.                                                         *)
C31_OneLiveTeeth == Cardinality(LiveTeeth(entities)) <= 1

(* The death callback of a shark that left the window has run in this tick *)
(* and the next special object is a shark: its teeth are alive in the       *)
(* collection.                                                              *)
C31_Witness ==
    /\ \E k \in SpecialsFoundDead(dead_entities) :
          /\ dead_entities[k].death_cb = "shark_death"
          /\ HasEv("death_cb", dead_entities[k].id)
    /\ \E k \in LiveTeeth(entities) : ~HasEv("update", entities[k].id)
    /\ \E k \in NewSpecials(entities) : entities[k].type = "shark"

(* C32: _frames_shown starts at 0 and goes up by one exactly in the         *)
(* update() calls that advance the frame.  An update() of a live entity     *)
(* with die_frame = N > 0 that starts with fewer than N frames shown does   *)
(* not kill it by frame count: if the entity is dead after it, then its     *)
(* die_time had come or the position step of this call took it out of the   *)
(* window.  The first update() that starts with N or more frames shown      *)
(* leaves the entity as it was but dead: not advanced, not moved.           *)
C32_FrameCountExpiry ==
    [][/\ (now = 0 /\ pc = "input") =>
             \A k \in 1..Len(entities) : entities[k]._frames_shown = 0
       /\ pc = "update" =>
             LET e  == entities[idx]
                 e2 == entities'[idx]
                 N  == e.die_frame
                 timed == e.die_time /= None /\ e.die_time /= 0 /\ now >= e.die_time
             IN  /\ e2._frames_shown - e._frames_shown
                       = IF e2.current_frame /= e.current_frame THEN 1 ELSE 0
                 /\ (e.is_alive /\ N > 0 /\ e._frames_shown < N /\ ~timed /\ ~e2.is_alive) =>
                       /\ e.die_offscreen
                       /\ e2.x = e.x + e.vx /\ e2.y = e.y + e.vy
                       /\ BoxOutside(e2, width, height)
                 /\ (e.is_alive /\ N > 0 /\ e._frames_shown >= N) =>
                       e2 = [e EXCEPT !.is_alive = FALSE]
       /\ \A k \in 1..Len(entities) :
             (entities[k].is_alive /\ entities[k].die_frame > 0) =>
                 entities[k]._frames_shown <= entities[k].die_frame]_vars

(* A moving entity with die_frame = 2, no die_time and an animation that is *)
(* due was killed by an update() that started with two frames shown.        *)
C32_Witness ==
    /\ pc = "collide"
    /\ \E k \in 1..Len(entities) :
          LET e == entities[k]
          IN  /\ ~e.is_alive /\ HasEv("kill", e.id)
              /\ e.die_frame = 2 /\ e._frames_shown = 2 /\ e.die_time = None
              /\ e.vx /= 0
              /\ ~BoxOutside(e, width, height)
              /\ now - e.last_anim_time >= e.anim_speed

(* C33: a splat whose frame has advanced is never drawn with frame 0        *)
(* again: no cell that draw_screen writes belongs to a splat that has       *)
(* shown a frame and is at frame index 0.                                   *)
C33_SplatNeverWraps ==
    [][(pc = "draw" /\ Draws) =>
          \A j \in 1..Len(screen') :
              LET e == entities[IndexOf(entities, screen'[j].id)]
              IN  (e.shapes = SplatShapes /\ e._frames_shown >= 1) =>
                      e.current_frame /= 0]_vars

----------------------------------------------------------------------------
(* C34: fish_collision kills the fish and adds exactly one splat when the   *)
(* list it is handed holds a teeth entity, at whatever place and however    *)
(* often, and the fish is at most 5 rows high; otherwise the fish stays     *)
(* alive and nothing is added.  The splat is placed 4 cells left of and 2   *)
(* rows above the fish, 2 layers in front of it.                            *)
C34_FishCollision ==
    [][(/\ pc = "dispatch"
        /\ entities[idx].is_alive
        /\ entities[idx].coll_handler = "fish_collision"
        /\ entities[idx].collisions /= <<>>) =>
          LET fish == entities[idx]
              met_teeth == \E k \in 1..Len(fish.collisions) :
                              \E j \in 1..Len(entities) :
                                  /\ entities[j].id = fish.collisions[k]
                                  /\ entities[j].type = "teeth"
          IN  IF met_teeth /\ fish._height <= 5
              THEN /\ ~entities'[idx].is_alive
                   /\ Len(entities') = Len(entities) + 1
                   /\ LET splat == entities'[Len(entities')]
                      IN  /\ splat.shapes = SplatShapes
                          /\ splat.is_alive
                          /\ splat.x = fish.x - 4 * Scale
                          /\ splat.y = fish.y - 2 * Scale
                          /\ splat.z = fish.z - 2
              ELSE /\ entities'[idx].is_alive
                   /\ Len(entities') = Len(entities)]_vars

C34_Witness ==
    /\ pc = "dispatch"
    /\ idx <= Len(entities)
    /\ entities[idx].is_alive
    /\ entities[idx].coll_handler = "fish_collision"
    /\ entities[idx]._height <= 5
    /\ Len(entities[idx].collisions) >= 2
    /\ TypeOf(entities, entities[idx].collisions[1]) /= "teeth"
    /\ TypeOf(entities, entities[idx].collisions[2]) = "teeth"

----------------------------------------------------------------------------
(* C35: while the loop is paused no update, collision detection, dispatch,  *)
(* death callback or removal runs and the scene is left as it is; the       *)
(* paused iteration composites exactly when needs_redraw is set and clears  *)
(* the flag by doing so; and while paused the flag is only set again by a   *)
(* redraw request (here the resize signal), so that one request yields at   *)
(* most one composite.                                                      *)
C35_PausedLoop ==
    [][paused =>
         /\ entities' = entities
         /\ dead_entities' = dead_entities
         /\ \A i \in 1..Len(log') : log'[i] = <<"draw_screen", 0>>
         /\ pc' \in {"input", "draw"} \/ ~paused'
         /\ (pc = "draw" /\ pc' = "input") =>
               /\ ~needs_redraw'
               /\ IF needs_redraw
                  THEN /\ log' = Append(log, <<"draw_screen", 0>>)
                       /\ screen' = DrawScreen(entities, width, height)
                  ELSE /\ log' = log
                       /\ screen' = screen
         /\ (~needs_redraw /\ needs_redraw') =>
               UNCHANGED <<entities, width, height, paused, now, pc, idx,
                           dead_entities, next_id, log, death_calls, screen>>]_vars

C35_Witness ==
    /\ paused
    /\ pc = "input"
    /\ log = << <<"draw_screen", 0>> >>
    /\ ~needs_redraw
    /\ now >= 2 * MaxDt

----------------------------------------------------------------------------
(* The update pass visits the collection in order, appended entities       *)
(* included, and updates each entity exactly once: during the pass the      *)
(* entities before the cursor have one update each and the others none,     *)
(* and when the pass is over every entity of the collection, a bubble       *)
(* appended by fish_update in this pass included, has exactly one.          *)
Updates(id) == Cardinality({k \in 1..Len(log) : log[k] = <<"update", id>>})

EachUpdatedOnce ==
    /\ pc = "update" =>
          /\ idx <= Len(entities)
          /\ \A i \in 1..Len(entities) :
                Updates(entities[i].id) = IF i < idx THEN 1 ELSE 0
    /\ pc = "collide" =>
          \A i \in 1..Len(entities) : Updates(entities[i].id) = 1

(* The pass only ever appends: no entity leaves the collection or changes   *)
(* its place while the collection is iterated, a step appends at most one   *)
(* entity, only a step on an entity with fish_update appends, and what is   *)
(* appended has no update callback.  The number of entities still to visit  *)
(* plus the number of spawners among them therefore falls with every step,  *)
(* which bounds the length of the pass.                                     *)
Remaining(ents, i) ==
    (Len(ents) + 1 - i)
    + Cardinality({k \in i..Len(ents) : ents[k].update_cb = "fish_update"})

PassOnlyAppends ==
    [][pc = "update" =>
         /\ Len(entities') \in {Len(entities), Len(entities) + 1}
         /\ \A i \in 1..Len(entities) : entities'[i].id = entities[i].id
         /\ Len(entities') > Len(entities) =>
               /\ entities[idx].update_cb = "fish_update"
               /\ entities'[Len(entities')].update_cb = "None"
         /\ Remaining(entities', idx') < Remaining(entities, idx)
         /\ Remaining(entities', idx') >= 0
         /\ pc' = (IF Remaining(entities', idx') = 0 THEN "collide" ELSE "update")]_vars

(* C36: the update pass terminates, updates every entity of the collection *)
(* exactly once, the entities appended during the pass included, and       *)
(* removes nothing while it iterates.                                       *)
C36_UpdatePass == []EachUpdatedOnce /\ PassOnlyAppends

C36_Witness ==
    /\ pc = "collide"
    /\ entities /= <<>>
    /\ LET bubble == entities[Len(entities)]
       IN  /\ bubble.type = "bubble"
           /\ bubble.last_anim_time = now
           /\ bubble._frames_shown = 0
           /\ Updates(bubble.id) = 1
           /\ \E i \in 1..(Len(entities) - 1) :
                 /\ entities[i].update_cb = "fish_update"
                 /\ HasEv("update_cb", entities[i].id)

----------------------------------------------------------------------------
(* How many updates an entity still survives: the moves after which its    *)
(* box has left the window on the side it is heading for.                   *)
CeilDiv(a, b) == (a + b - 1) \div b

TicksToLeave(e, W, H) ==
    LET horizontal ==
            IF e.vx > 0 THEN CeilDiv(Scale * W - e.x, e.vx)
            ELSE CeilDiv(e.x + Scale * e._width, -e.vx)
        vertical ==
            IF e.vy > 0 THEN CeilDiv(Scale * H - e.y, e.vy)
            ELSE CeilDiv(e.y + Scale * e._height, -e.vy)
    IN  IF e.vy = 0 THEN horizontal
        ELSE IF e.vx = 0 THEN vertical
        ELSE IF horizontal < vertical THEN horizontal ELSE vertical

Roams(e) == e.die_offscreen /\ (e.vx /= 0 \/ e.vy /= 0)

(* A live roaming entity has not yet passed the edge it is heading for. *)
StillInside ==
    \A i \in 1..Len(entities) :
        (entities[i].is_alive /\ Roams(entities[i])) =>
            TicksToLeave(entities[i], width, height) >= 1

(* An update that leaves a roaming entity alive brings it one move closer  *)
(* to that edge, with its velocity unchanged.                               *)
ApproachesEdge ==
    [][(pc = "update" /\ entities[idx].is_alive /\ Roams(entities[idx])
        /\ entities'[idx].is_alive) =>
          /\ entities'[idx].vx = entities[idx].vx
          /\ entities'[idx].vy = entities[idx].vy
          /\ TicksToLeave(entities'[idx], width, height)
               = TicksToLeave(entities[idx], width, height) - 1]_vars

(* The entity id is in the scene, dies offscreen, moves, and the run still *)
(* lasts long enough for it to reach the edge.                              *)
Roaming(id) ==
    /\ id \in Ids(entities)
    /\ LET e == entities[IndexOf(entities, id)]
       IN  /\ Roams(e)
           /\ now + TicksToLeave(e, width, height) < LiveTime

(* Tick is the step of NextLive and nothing else: every step moves the     *)
(* position of the loop, and a state that is not Halted has a next step.    *)
TickIsLoopStep ==
    [][/\ pc' /= pc \/ idx' /= idx
       /\ pc' \in {"input", "update", "collide", "dispatch", "death_cb", "remove", "draw"}
       /\ idx' \in 1..(LiveIds + 1)]_vars

EventuallyRemoved ==
    \A id \in 1..LiveIds :
        Roaming(id) ~> (id \notin Ids(entities) \/ OutOfIds)

(* C37: while the loop keeps running ticks, every entity that dies         *)
(* offscreen and has a non-zero velocity component is eventually marked    *)
(* dead and removed from the scene: alive it is short of the edge it heads  *)
(* for, every update brings it one move closer, and it does leave the       *)
(* collection.                                                              *)
C37_EventualExpiry == []StillInside /\ ApproachesEdge /\ EventuallyRemoved

C37_Witness ==
    /\ now > 10
    /\ pc = "draw"
    /\ \E k \in 1..Len(dead_entities) :
          /\ dead_entities[k].death_cb = "None"
          /\ HasEv("kill", dead_entities[k].id)
          /\ HasEv("remove", dead_entities[k].id)
          /\ dead_entities[k].id \notin Ids(entities)

----------------------------------------------------------------------------
(* C38: a dead entity lingers in the collection for at most one tick.  At  *)
(* the end of a running tick every dead entity still in the collection was  *)
(* killed in this very tick, after collision detection (by a collision      *)
(* handler or a death callback); one that was dead before the tick began    *)
(* has been found dead by the dispatch loop, has had its death callback     *)
(* fired once if it has one, and is out of the collection.                  *)
KilledSinceDetection(id) ==
    \E i, j \in 1..Len(log) :
        i < j /\ log[i] = <<"check_collisions", 0>> /\ log[j] = <<"kill", id>>

C38_DeadLingersOneTick ==
    (pc = "draw" /\ RunningTick) =>
        /\ \A k \in 1..Len(entities) :
              ~entities[k].is_alive => KilledSinceDetection(entities[k].id)
        /\ \A k \in 1..Len(dead_entities) :
              LET d == dead_entities[k]
              IN  /\ HasEv("found_dead", d.id)
                  /\ HasEv("remove", d.id)
                  /\ d.id \notin Ids(entities)
                  /\ d.death_cb /= "None" =>
                        (HasEv("death_cb", d.id) /\ death_calls[d.id] = 1)
                  /\ d.death_cb = "None" => death_calls[d.id] = 0

C38_Witness ==
    /\ pc = "draw"
    /\ RunningTick
    /\ \E k \in 1..Len(dead_entities) :
          LET d == dead_entities[k]
          IN  /\ ~HasEv("kill", d.id)
              /\ HasEv("found_dead", d.id)
              /\ HasEv("death_cb", d.id)
              /\ HasEv("remove", d.id)

----------------------------------------------------------------------------
(* The population of a window of W columns and H rows, by the numbers: 4   *)
(* waterline rows, 1 castle, max(1, W // 15) seaweed,                       *)
(* max(1, (max(1, H - 9) * W) // 350) fish, one special object and the      *)
(* teeth of a shark; nothing else, every entity alive and a new object.     *)
ExactPopulation(ents, W, H) ==
    LET seaweed == Max2(1, W \div 15)
        fish == Max2(1, (Max2(1, H - 9) * W) \div 350)
        sharks == Cardinality(TypePlaces(ents, "shark"))
    IN  /\ Cardinality(TypePlaces(ents, "waterline")) = 4
        /\ Cardinality({k \in 1..Len(ents) : ents[k].shapes = <<CastleImage>>}) = 1
        /\ Cardinality(TypePlaces(ents, "seaweed")) = seaweed
        /\ Cardinality(TypePlaces(ents, "fish")) = fish
        /\ Cardinality(SpecialPlaces(ents)) = 1
        /\ Cardinality(TypePlaces(ents, "teeth")) = sharks
        /\ Len(ents) = 4 + 1 + seaweed + fish + 1 + sharks
        /\ \A k \in 1..Len(ents) :
              /\ ents[k].is_alive
              /\ ents[k].id = k
              /\ ents[k]._frames_shown = 0
              /\ ents[k].collisions = <<>>

NoCallbackLogged(events) ==
    \A i \in 1..Len(events) :
        events[i][1] \notin {"update_cb", "coll_handler", "death_cb"}

(* C39: a reset empties the collection without running a death callback,   *)
(* the population made next is exactly the fresh one, again without any     *)
(* callback, and from then on an entity only enters the scene through a     *)
(* callback of an entity that is in the collection at that moment, never    *)
(* through one of a discarded entity.                                       *)
C39_ResetDiscardsSilently ==
    [][/\ (pc = "input" /\ pc' = "populate") =>
            /\ entities' = <<>>
            /\ dead_entities' = <<>>
            /\ NoCallbackLogged(log')
            /\ \A id \in DOMAIN death_calls' : death_calls'[id] = 0
       /\ pc = "populate" =>
            /\ ExactPopulation(entities', width, height)
            /\ NoCallbackLogged(log')
            /\ \A id \in DOMAIN death_calls' : death_calls'[id] = 0
            /\ dead_entities' = <<>>
       /\ (pc \notin {"populate", "start"} /\ Len(entities') > Len(entities)) =>
            /\ Len(log') > Len(log)
            /\ \E i \in (Len(log) + 1)..Len(log') :
                  /\ log'[i][1] \in {"update_cb", "coll_handler", "death_cb"}
                  /\ log'[i][2] \in Ids(entities)
       /\ (pc = "death_cb" /\ dead_entities[idx].death_cb /= "None") =>
            /\ dead_entities[idx].id \in Ids(entities)
            /\ HasEv("found_dead", dead_entities[idx].id)]_vars

(* The key 'r' was pressed in a scene that had been drawn: the collection  *)
(* is empty and the population is about to be made.                         *)
C39_Witness ==
    /\ pc = "populate"
    /\ ~HasEv("update_term_size", 0)
    /\ entities = <<>>
    /\ \E j, k \in 1..Len(screen) : screen[j].id /= screen[k].id
    /\ now > MaxTime - RunTicks

=============================================================================
